---- MODULE Spec2Model ----
(***************************************************************************)
(* Storyroot: the persistent text-highlight subsystem of the note editor.  *)
(*                                                                         *)
(* State: the in-memory notes, the record store, the editor text, the live *)
(* CodeMirror markers (activeHighlightMarkers), the open tabs, the autosave*)
(* timer and the saves awaiting the record store.                          *)
(* Text is a sequence of one-character strings; offsets are 0-based and    *)
(* ranges are half-open [from, to), as in the JavaScript source.           *)
(***************************************************************************)
EXTENDS Integers, Sequences, FiniteSets, TLC

\* ---------------------------------------------------------------- bounds
MaxSteps == 3       \* most user events and callbacks in one explored session
MaxRendered == 3    \* most characters of a rendered preview text
MaxMatch == 2       \* most characters of the text of a highlight in the preview
MaxQuery == 2       \* most characters of a search query

NULL == "null"
NoteIds == {"n1", "n2"}
Keys == {"c"}        \* the characters the user types
Colors == {"yellow", "green"}

NoRange == <<>>     \* marker.find() of a marker that has no range left

ToastNone == ""
ToastSelect == "Select text to highlight"
ToastRemoved == "Highlight removed"
ToastSaved == "Note saved"
ToastImported == "Vault imported successfully"
ToastReplaced == "Replaced occurrences"

\* the note of a marker whose highlight object is no longer held by `notes`
Detached == "detached"

VARIABLES
    notes,                  \* noteId -> [content, highlights]  (let notes)
    db,                     \* noteId -> record in the notes object store
    autoSave,               \* settings.autoSave
    lastOpenedNote,         \* settings.lastOpenedNote
    currentNoteId,
    openTabs,
    hasUnsavedChanges,
    autoSaveTimer,          \* TRUE while a setTimeout of resetAutoSaveTimer is pending
    editorValue,            \* editor.getValue()
    activeHighlightMarkers, \* sequence of [range, color, note, h]
    savesInFlight,          \* saveCurrentNote calls suspended at `await saveNote`
    toast,                  \* text of the last showToast
    steps,                  \* events handled so far (bounds the exploration)
    currentEditMode,        \* "edit", "preview" or "split"
    previewInnerText,       \* markdownPreview.innerText
    previewEditing,         \* _previewEditing
    previewEditable,        \* markdownPreview.contentEditable === 'true'
    timerHandle,            \* the ids held by autoSaveTimer and _previewSyncTimer, 0 for null
    timeouts,               \* the setTimeout callbacks not yet run: a set of [id, fn]
    previewNodes,           \* the text nodes of the preview container, in document order
    previewSpans,           \* the highlights handed to applyHighlightsToPreview
    projected,              \* TRUE once applyHighlightsToPreview has run on previewNodes
    searchState,            \* searchState: query, matches, currentMatchIndex, flags, markers
    searchInput,            \* the value of the search text input
    folders,                \* folderId -> parentFolderId, NULL at the root  (let folders)
    noteFolderId,           \* noteId -> note.folderId, NULL at the root
    pendingDelete           \* the confirmDelete / clearAllData call suspended at an await

\* the mode controller with its timers, the preview projection, the search panel
modeVars == <<currentEditMode, previewInnerText, previewEditing, previewEditable,
              timerHandle, timeouts>>
projVars == <<previewNodes, previewSpans, projected>>
searchVars == <<searchState, searchInput>>
treeVars == <<folders, noteFolderId, pendingDelete>>

vars == <<notes, db, autoSave, lastOpenedNote, currentNoteId, openTabs,
          hasUnsavedChanges, autoSaveTimer, editorValue,
          activeHighlightMarkers, savesInFlight, toast, steps,
          currentEditMode, previewInnerText, previewEditing, previewEditable,
          timerHandle, timeouts, previewNodes, previewSpans, projected,
          searchState, searchInput, folders, noteFolderId, pendingDelete>>

FolderIds == {"f1", "f2", "f3", "f4"}

\* ---------------------------------------------------------------- text helpers
Min(a, b) == IF a < b THEN a ELSE b
Max(a, b) == IF a > b THEN a ELSE b

\* String.prototype.slice / doc.getRange on offsets 0 <= f <= t <= Len(s)
Slice(s, f, t) == SubSeq(s, f + 1, t)

\* the text after typing character c at offset p
InsertAt(s, p, c) == Slice(s, 0, p) \o <<c>> \o Slice(s, p, Len(s))

\* the text after deleting [d1, d2)
DeleteRange(s, d1, d2) == Slice(s, 0, d1) \o Slice(s, d2, Len(s))

\* doc.posFromIndex followed by doc.indexFromPos: CodeMirror clips the
\* offset into the document
clipIndex(i, len) == Max(0, Min(i, len))

\* marked.parse + DOMPurify.sanitize + textContent on text without markdown
\* syntax: the paragraph "<p>text</p>\n" has the text content "text\n"
markdownToPlainText(md) == IF md = <<>> THEN <<>> ELSE md \o <<"\n">>

\* ---------------------------------------------------------------- mutants
\* Each operator below is a model operator changed the way a slip in the
\* source would change it; the properties at the end must tell them apart.

\* markText with inclusiveLeft: true: typing at the start of a marker grows it
rangeAfterInsertInclusiveLeft(r, p, n) ==
    IF r = <<>> THEN <<>>
    ELSE IF p < r[1] THEN <<r[1] + n, r[2] + n>>
    ELSE IF p < r[2] THEN <<r[1], r[2] + n>>
    ELSE r

\* the bounds guard with `h.to >= contentLength`
staleBoundsOffByOne(h, contentLength) ==
    h.from >= contentLength \/ h.to >= contentLength \/ h.from >= h.to

\* a rebuild that forgets to empty activeHighlightMarkers
RECURSIVE markersForKeepingOld(_, _, _, _)
markersForKeepingOld(hl, nid, len, i) ==
    IF i > Len(hl) THEN <<>>
    ELSE LET h == hl[i]
             rest == markersForKeepingOld(hl, nid, len, i + 1)
         IN IF h.from >= len \/ h.to > len \/ h.from >= h.to
            THEN rest
            ELSE <<[range |-> IF h.from < h.to THEN <<h.from, h.to>> ELSE <<>>,
                    color |-> h.color, note |-> nid, h |-> i]>> \o rest

applyHighlightMarkersNoClear(old, hl, nid, content) ==
    [markers |-> old \o markersForKeepingOld(hl, nid, Len(content), 1), highlights |-> hl]

\* a rebuild that deletes the spans its guard skips
applyHighlightMarkersDropping(old, hl, nid, content) ==
    LET kept == SelectSeq(hl, LAMBDA h : ~(h.from >= Len(content) \/ h.to > Len(content)
                                           \/ h.from >= h.to))
    IN [markers |-> markersForKeepingOld(kept, nid, Len(content), 1), highlights |-> kept]

\* a reconcile that zeroes the span of a marker without a range
RECURSIVE syncResetting(_, _, _)
syncResetting(ns, ms, i) ==
    IF i > Len(ms) THEN ns
    ELSE LET m == ms[i]
         IN IF m.range = <<>>
            THEN syncResetting([ns EXCEPT ![m.note].highlights[m.h].from = 0,
                                          ![m.note].highlights[m.h].to = 0], ms, i + 1)
            ELSE syncResetting([ns EXCEPT ![m.note].highlights[m.h].from = m.range[1],
                                          ![m.note].highlights[m.h].to = m.range[2]],
                               ms, i + 1)

syncResettingCleared(ns, ms) == syncResetting(ns, ms, 1)

\* a removeHighlight that does not read the marker positions back first
syncNothing(ns, ms) == ns

\* a reconcile that also takes the text of the span from the editor again
syncRefreshingText(ns, ms) ==
    [n \in DOMAIN ns |->
       [ns[n] EXCEPT !.highlights =
          [k \in DOMAIN ns[n].highlights |->
             LET live == {j \in DOMAIN ms :
                            ms[j].note = n /\ ms[j].h = k /\ ms[j].range # <<>>}
                 r == ms[CHOOSE j \in live : TRUE].range
             IN IF live = {} THEN ns[n].highlights[k]
                ELSE [ns[n].highlights[k] EXCEPT
                        !.from = r[1], !.to = r[2],
                        !.text = Slice(editorValue, r[1], r[2]),
                        !.previewText = markdownToPlainText(Slice(editorValue, r[1], r[2]))]]]]

\* an applyHighlight without the test for an empty selection
selectionNeverPoint(f, t) == FALSE

\* ---------------------------------------------------------------- markers
\* How a CodeMirror TextMarker made with inclusiveLeft: false and
\* inclusiveRight: false (clearWhenEmpty by default) follows an insertion of
\* n characters at offset p.
rangeAfterInsert(r, p, n) ==
    IF r = NoRange THEN NoRange
    ELSE IF p <= r[1] THEN <<r[1] + n, r[2] + n>>
    ELSE IF p < r[2] THEN <<r[1], r[2] + n>>
    ELSE r

adjustOffset(x, d1, d2) ==
    IF x <= d1 THEN x ELSE IF x >= d2 THEN x - (d2 - d1) ELSE d1

\* ... and a deletion of [d1, d2): a marker whose whole range is deleted is
\* left empty and CodeMirror detaches it (find() returns undefined).
rangeAfterDelete(r, d1, d2) ==
    IF r = NoRange THEN NoRange
    ELSE IF adjustOffset(r[1], d1, d2) >= adjustOffset(r[2], d1, d2) THEN NoRange
    ELSE <<adjustOffset(r[1], d1, d2), adjustOffset(r[2], d1, d2)>>

\* doc.markText(from, to, ...): an empty or inverted range yields a marker
\* that is not attached to the document
markText(f, t) == IF f < t THEN <<f, t>> ELSE NoRange

\* editor.setValue replaces the whole document: every marker loses its range
markersAfterSetValue(ms) == [i \in DOMAIN ms |-> [ms[i] EXCEPT !.range = NoRange]]

\* ---------------------------------------------------------------- highlight engine
\* the guard of applyHighlightMarkers against stale highlights
staleBounds(h, contentLength) ==
    h.from >= contentLength \/ h.to > contentLength \/ h.from >= h.to

RECURSIVE markersFor(_, _, _, _)
markersFor(hl, nid, len, i) ==
    IF i > Len(hl) THEN <<>>
    ELSE LET h == hl[i]
             rest == markersFor(hl, nid, len, i + 1)
         IN IF staleBounds(h, len)
            THEN rest
            ELSE <<[range |-> markText(clipIndex(h.from, len), clipIndex(h.to, len)),
                    color |-> h.color, note |-> nid, h |-> i]>> \o rest

\* applyHighlightMarkers(note): the markers are cleared and made again from
\* note.highlights against the editor text; the result pairs the new
\* activeHighlightMarkers with note.highlights as the call leaves it.
applyHighlightMarkers(old, hl, nid, content) ==
    [markers |-> markersFor(hl, nid, Len(content), 1), highlights |-> hl]

RECURSIVE syncFrom(_, _, _)
syncFrom(ns, ms, i) ==
    IF i > Len(ms) THEN ns
    ELSE LET m == ms[i]
         IN IF m.range = NoRange \/ m.note = Detached
            THEN syncFrom(ns, ms, i + 1)
            ELSE syncFrom([ns EXCEPT ![m.note].highlights[m.h].from = m.range[1],
                                     ![m.note].highlights[m.h].to = m.range[2]],
                          ms, i + 1)

\* syncHighlightPositionsFromMarkers(note): every marker that still has a
\* range writes its offsets into the highlight object it was made for (an
\* object `notes` no longer holds takes the write without any note seeing it)
syncHighlightPositionsFromMarkers(ns, ms) == syncFrom(ns, ms, 1)

\* ---------------------------------------------------------------- initial state
Span(f, t, txt, c) ==
    [from |-> f, to |-> t, text |-> txt, previewText |-> markdownToPlainText(txt),
     color |-> c]

\* Records the notes store can hold when the page loads. A record written
\* by an earlier session:
CleanRecord ==
    [content |-> <<"a", "b">>,
     highlights |-> <<Span(0, 1, <<"a">>, "yellow"), Span(1, 2, <<"b">>, "green")>>]

\* A record imported from a JSON export (importVault stores the notes of the
\* file as they are): one span starts before the text, one ends after it.
StaleRecord ==
    [content |-> <<"a", "b">>,
     highlights |-> <<Span(-1, 1, <<"a">>, "green"), Span(1, 3, <<"b", "a">>, "yellow")>>]

\* window.onload: the stores are read and settings.lastOpenedNote is opened
Loaded(store, auto, last) ==
    LET r == applyHighlightMarkers(<<>>, store[last].highlights, last, store[last].content)
    IN /\ db = store
       /\ notes = [store EXCEPT ![last].highlights = r.highlights]
       /\ autoSave = auto
       /\ lastOpenedNote = last
       /\ currentNoteId = last
       /\ openTabs = <<last>>
       /\ hasUnsavedChanges = FALSE
       /\ autoSaveTimer = FALSE
       /\ editorValue = store[last].content
       /\ activeHighlightMarkers = r.markers
       /\ savesInFlight = 0
       /\ toast = ToastNone
       /\ steps = 0

\* the editor pane is showing, no timeout is pending and no preview is rendered
EditModeIdle ==
    /\ currentEditMode = "edit"
    /\ previewInnerText = <<>>
    /\ previewEditing = FALSE
    /\ previewEditable = FALSE
    /\ timerHandle = [autoSave |-> 0, previewSync |-> 0]
    /\ timeouts = {}

NoProjection ==
    /\ previewNodes = <<>>
    /\ previewSpans = <<>>
    /\ projected = FALSE

\* let searchState = {...}: the search panel has not been used
SearchIdle ==
    /\ searchState = [query |-> <<>>, matches |-> <<>>, currentMatchIndex |-> -1,
                      matchCase |-> FALSE, wholeWord |-> FALSE, useRegex |-> FALSE,
                      markers |-> <<>>]
    /\ searchInput = <<>>

\* no confirmDelete and no clearAllData is waiting for the record store
NoDelete ==
    [type |-> "none", id |-> NULL, stage |-> "none", awaited |-> NULL,
     noteQueue |-> <<>>, foldersToDelete |-> {}, folderQueue |-> 0]

\* every folder and every note at the root, no delete under way
TreeIdle ==
    /\ folders = [f \in FolderIds |-> NULL]
    /\ noteFolderId = [n \in NoteIds |-> NULL]
    /\ pendingDelete = NoDelete

Init ==
    /\ \E last \in NoteIds : \E auto \in BOOLEAN :
         Loaded([n \in NoteIds |-> IF n = "n1" THEN CleanRecord ELSE StaleRecord],
                auto, last)
    /\ EditModeIdle
    /\ NoProjection
    /\ SearchIdle
    /\ TreeIdle

\* ---------------------------------------------------------------- editing
\* every event handled counts against the length of the explored session
Tick == steps < MaxSteps /\ steps' = steps + 1

\* resetAutoSaveTimer(): the pending timer is replaced by a new one
resetAutoSaveTimer(pending) == IF autoSave THEN TRUE ELSE pending

\* editor.on('change') after the user types character c at offset p
EditInsert(p, c) ==
    /\ currentNoteId # NULL
    /\ Tick
    /\ UNCHANGED <<modeVars, projVars, searchVars, treeVars>>
    /\ editorValue' = InsertAt(editorValue, p, c)
    /\ activeHighlightMarkers' =
         [i \in DOMAIN activeHighlightMarkers |->
            [activeHighlightMarkers[i] EXCEPT !.range = rangeAfterInsert(@, p, 1)]]
    /\ hasUnsavedChanges' = TRUE
    /\ autoSaveTimer' = resetAutoSaveTimer(autoSaveTimer)
    /\ UNCHANGED <<notes, db, autoSave, lastOpenedNote, currentNoteId, openTabs,
                   savesInFlight, toast>>

\* editor.on('change') after the user deletes [d1, d2)
EditDelete(d1, d2) ==
    /\ currentNoteId # NULL
    /\ d1 < d2
    /\ Tick
    /\ UNCHANGED <<modeVars, projVars, searchVars, treeVars>>
    /\ editorValue' = DeleteRange(editorValue, d1, d2)
    /\ activeHighlightMarkers' =
         [i \in DOMAIN activeHighlightMarkers |->
            [activeHighlightMarkers[i] EXCEPT !.range = rangeAfterDelete(@, d1, d2)]]
    /\ hasUnsavedChanges' = TRUE
    /\ autoSaveTimer' = resetAutoSaveTimer(autoSaveTimer)
    /\ UNCHANGED <<notes, db, autoSave, lastOpenedNote, currentNoteId, openTabs,
                   savesInFlight, toast>>

\* ---------------------------------------------------------------- notes and tabs
Contains(seq, x) == \E i \in DOMAIN seq : seq[i] = x

\* openTabs.indexOf(noteId), 1-based
IndexOf(seq, x) == CHOOSE i \in DOMAIN seq : seq[i] = x

RemoveAt(seq, i) == SubSeq(seq, 1, i - 1) \o SubSeq(seq, i + 1, Len(seq))

\* saveCurrentNote up to `await saveNote(note)`: the note takes the editor
\* text and the marker positions
savedNotes(ns) ==
    syncHighlightPositionsFromMarkers([ns EXCEPT ![currentNoteId].content = editorValue],
                                      activeHighlightMarkers)

\* saveNote(note): the record is put into the store as the note is now,
\* whether or not the store holds a record under that id
saveNote(store, ns, nid) ==
    [n \in DOMAIN store \cup {nid} |-> IF n = nid THEN ns[nid] ELSE store[n]]

\* an openNote whose setValue reaches the change handler
openNoteUnsuppressed(ns, tabs, noteId) ==
    LET r == applyHighlightMarkers(markersAfterSetValue(activeHighlightMarkers),
                                   ns[noteId].highlights, noteId, ns[noteId].content)
    IN /\ openTabs' = IF Contains(tabs, noteId) THEN tabs ELSE Append(tabs, noteId)
       /\ currentNoteId' = noteId
       /\ hasUnsavedChanges' = TRUE
       /\ editorValue' = ns[noteId].content
       /\ activeHighlightMarkers' = r.markers
       /\ notes' = [ns EXCEPT ![noteId].highlights = r.highlights]
       /\ lastOpenedNote' = noteId

\* openNote(noteId) run on the notes ns and the tabs `tabs`
openNote(ns, tabs, noteId) ==
    LET r == applyHighlightMarkers(markersAfterSetValue(activeHighlightMarkers),
                                   ns[noteId].highlights, noteId, ns[noteId].content)
    IN /\ openTabs' = IF Contains(tabs, noteId) THEN tabs ELSE Append(tabs, noteId)
       /\ currentNoteId' = noteId
       /\ hasUnsavedChanges' = FALSE
       /\ editorValue' = ns[noteId].content
       /\ activeHighlightMarkers' = r.markers
       /\ notes' = [ns EXCEPT ![noteId].highlights = r.highlights]
       /\ lastOpenedNote' = noteId

\* a click on a note in the file explorer: div.onclick = () => openNote(note.id)
OpenNote(noteId) ==
    /\ openNote(notes, openTabs, noteId)
    /\ UNCHANGED <<db, autoSave, autoSaveTimer, savesInFlight, toast>>
    /\ Tick
    /\ UNCHANGED <<modeVars, projVars, searchVars, treeVars>>

\* a click on a tab
SwitchToTab(noteId) ==
    /\ Contains(openTabs, noteId)
    /\ currentNoteId # noteId
    /\ IF currentNoteId # NULL /\ autoSave
       THEN /\ db' = saveNote(db, savedNotes(notes), currentNoteId)
            /\ savesInFlight' = savesInFlight + 1
            /\ openNote(savedNotes(notes), openTabs, noteId)
       ELSE IF currentNoteId # NULL
       THEN /\ openNote(syncHighlightPositionsFromMarkers(notes, activeHighlightMarkers),
                        openTabs, noteId)
            /\ UNCHANGED <<db, savesInFlight>>
       ELSE /\ openNote(notes, openTabs, noteId)
            /\ UNCHANGED <<db, savesInFlight>>
    /\ UNCHANGED <<autoSave, autoSaveTimer, toast>>
    /\ Tick
    /\ UNCHANGED <<modeVars, projVars, searchVars, treeVars>>

\* a click on the close button of a tab
CloseTab(noteId) ==
    LET saving == noteId = currentNoteId /\ autoSave /\ hasUnsavedChanges
        ns1 == IF saving THEN savedNotes(notes) ELSE notes
        tabIndex == IndexOf(openTabs, noteId)
        tabs1 == RemoveAt(openTabs, tabIndex)
    IN /\ Contains(openTabs, noteId)
       /\ db' = IF saving THEN saveNote(db, ns1, currentNoteId) ELSE db
       /\ savesInFlight' = IF saving THEN savesInFlight + 1 ELSE savesInFlight
       /\ IF noteId = currentNoteId
          THEN IF Len(tabs1) > 0
               THEN openNote(ns1, tabs1, tabs1[Max(1, tabIndex - 1)])
               ELSE /\ currentNoteId' = NULL
                    /\ editorValue' = <<>>
                    /\ activeHighlightMarkers' = markersAfterSetValue(activeHighlightMarkers)
                    /\ hasUnsavedChanges' = TRUE
                    /\ openTabs' = tabs1
                    /\ notes' = ns1
                    /\ UNCHANGED lastOpenedNote
          ELSE /\ openTabs' = tabs1
               /\ notes' = ns1
               /\ UNCHANGED <<currentNoteId, editorValue, activeHighlightMarkers,
                              hasUnsavedChanges, lastOpenedNote>>
       /\ UNCHANGED <<autoSave, autoSaveTimer, toast>>
       /\ Tick
       /\ UNCHANGED <<modeVars, projVars, searchVars, treeVars>>

\* Ctrl+S: saveCurrentNote() up to its await
SaveCurrentNote ==
    /\ currentNoteId # NULL
    /\ currentNoteId \in DOMAIN notes
    /\ notes' = savedNotes(notes)
    /\ db' = saveNote(db, savedNotes(notes), currentNoteId)
    /\ savesInFlight' = savesInFlight + 1
    /\ UNCHANGED <<autoSave, lastOpenedNote, currentNoteId, openTabs, hasUnsavedChanges,
                   autoSaveTimer, editorValue, activeHighlightMarkers, toast>>
    /\ Tick
    /\ UNCHANGED <<modeVars, projVars, searchVars, treeVars>>

\* saveCurrentNote() resumed after `await saveNote(note)`
SaveResume ==
    /\ savesInFlight > 0
    /\ savesInFlight' = savesInFlight - 1
    /\ hasUnsavedChanges' = FALSE
    /\ toast' = ToastSaved
    /\ UNCHANGED <<notes, db, autoSave, lastOpenedNote, currentNoteId, openTabs,
                   autoSaveTimer, editorValue, activeHighlightMarkers>>
    /\ Tick
    /\ UNCHANGED <<modeVars, projVars, searchVars, treeVars>>

\* the callback of the autosave timer
AutoSaveFire ==
    /\ autoSaveTimer
    /\ autoSaveTimer' = FALSE
    /\ IF hasUnsavedChanges /\ currentNoteId # NULL /\ currentNoteId \in DOMAIN notes
       THEN /\ notes' = savedNotes(notes)
            /\ db' = saveNote(db, savedNotes(notes), currentNoteId)
            /\ savesInFlight' = savesInFlight + 1
       ELSE UNCHANGED <<notes, db, savesInFlight>>
    /\ UNCHANGED <<autoSave, lastOpenedNote, currentNoteId, openTabs, hasUnsavedChanges,
                   editorValue, activeHighlightMarkers, toast>>
    /\ Tick
    /\ UNCHANGED <<modeVars, projVars, searchVars, treeVars>>

\* the auto-save checkbox of the settings modal
ToggleAutoSave ==
    /\ autoSave' = ~autoSave
    /\ UNCHANGED <<notes, db, lastOpenedNote, currentNoteId, openTabs, hasUnsavedChanges,
                   autoSaveTimer, editorValue, activeHighlightMarkers, savesInFlight, toast>>
    /\ Tick
    /\ UNCHANGED <<modeVars, projVars, searchVars, treeVars>>

\* the page is loaded again: window.onload reads the stores and opens
\* settings.lastOpenedNote
Reload ==
    /\ UNCHANGED <<db, autoSave>>
    /\ autoSaveTimer' = FALSE
    /\ savesInFlight' = 0
    /\ toast' = ToastNone
    /\ IF lastOpenedNote # NULL
       THEN openNote(db, <<>>, lastOpenedNote)
       ELSE /\ notes' = db
            /\ currentNoteId' = NULL
            /\ openTabs' = <<>>
            /\ hasUnsavedChanges' = FALSE
            /\ editorValue' = <<>>
            /\ activeHighlightMarkers' = <<>>
            /\ UNCHANGED lastOpenedNote
    /\ Tick
    /\ UNCHANGED <<modeVars, projVars, searchVars, treeVars>>

\* the notes of a JSON export made when the vault was first written
ExportedNotes == [n \in NoteIds |-> IF n = "n1" THEN CleanRecord ELSE StaleRecord]

\* importVault(file) with the notes `ids` of the export in data.notes: each
\* is put into the store, then `notes` becomes what loadNotes() returns.
\* The open note is not opened again: the editor text and the markers stay,
\* the markers bound to the highlight objects of the notes just replaced.
ImportVault(ids) ==
    /\ db' = [n \in NoteIds |-> IF n \in ids THEN ExportedNotes[n] ELSE db[n]]
    /\ notes' = db'
    /\ activeHighlightMarkers' =
         [i \in DOMAIN activeHighlightMarkers |->
            [activeHighlightMarkers[i] EXCEPT !.note = Detached]]
    /\ toast' = ToastImported
    /\ UNCHANGED <<autoSave, lastOpenedNote, currentNoteId, openTabs, hasUnsavedChanges,
                   autoSaveTimer, editorValue, savesInFlight>>
    /\ Tick
    /\ UNCHANGED <<modeVars, projVars, searchVars, treeVars>>

\* ---------------------------------------------------------------- overlap resolver
\* from.line === to.line && from.ch === to.ch
selectionIsPoint(f, t) == f = t

\* the spans applyHighlight and removeHighlight keep for the selection [f, t)
keepOutside(hl, f, t) == SelectSeq(hl, LAMBDA h : h.to <= f \/ h.from >= t)

\* the spans removeHighlight keeps for a cursor at f
keepOffCursor(hl, f) == SelectSeq(hl, LAMBDA h : ~(h.from <= f /\ h.to >= f))

newSpan(f, t, color) ==
    [from |-> f, to |-> t, text |-> Slice(editorValue, f, t),
     previewText |-> markdownToPlainText(Slice(editorValue, f, t)), color |-> color]

\* applyHighlight(color) with the selection [f, t)
ApplyHighlight(color, f, t) ==
    /\ currentNoteId # NULL
    /\ f <= t
    /\ IF selectionIsPoint(f, t)
       THEN /\ toast' = ToastSelect
            /\ UNCHANGED <<notes, db, activeHighlightMarkers, hasUnsavedChanges>>
       ELSE LET hl1 == Append(keepOutside(notes[currentNoteId].highlights, f, t),
                              newSpan(f, t, color))
                ns1 == [notes EXCEPT ![currentNoteId].highlights = hl1]
                r == applyHighlightMarkers(activeHighlightMarkers, hl1, currentNoteId,
                                           editorValue)
            IN /\ db' = saveNote(db, ns1, currentNoteId)
               /\ notes' = [ns1 EXCEPT ![currentNoteId].highlights = r.highlights]
               /\ activeHighlightMarkers' = r.markers
               /\ hasUnsavedChanges' = TRUE
               /\ UNCHANGED toast
    /\ UNCHANGED <<autoSave, lastOpenedNote, currentNoteId, openTabs, autoSaveTimer,
                   editorValue, savesInFlight>>
    /\ Tick
    /\ UNCHANGED <<modeVars, projVars, searchVars, treeVars>>

\* removeHighlight() with the selection [f, t), a cursor when f = t
RemoveHighlight(f, t) ==
    /\ currentNoteId # NULL
    /\ f <= t
    /\ LET synced == syncHighlightPositionsFromMarkers(notes, activeHighlightMarkers)
           hl0 == synced[currentNoteId].highlights
           hl1 == IF selectionIsPoint(f, t) THEN keepOffCursor(hl0, f) ELSE keepOutside(hl0, f, t)
           ns1 == [synced EXCEPT ![currentNoteId].highlights = hl1]
           r == applyHighlightMarkers(activeHighlightMarkers, hl1, currentNoteId,
                                      editorValue)
       IN /\ db' = saveNote(db, ns1, currentNoteId)
          /\ notes' = [ns1 EXCEPT ![currentNoteId].highlights = r.highlights]
          /\ activeHighlightMarkers' = r.markers
    /\ hasUnsavedChanges' = TRUE
    /\ toast' = ToastRemoved
    /\ UNCHANGED <<autoSave, lastOpenedNote, currentNoteId, openTabs, autoSaveTimer,
                   editorValue, savesInFlight>>
    /\ Tick
    /\ UNCHANGED <<modeVars, projVars, searchVars, treeVars>>

\* ---------------------------------------------------------------- specification
Offsets == 0..Len(editorValue)

Next ==
    \/ \E p \in Offsets : \E c \in Keys : EditInsert(p, c)
    \/ \E d1 \in Offsets : \E d2 \in Offsets : EditDelete(d1, d2)
    \/ \E n \in NoteIds : OpenNote(n)
    \/ \E n \in NoteIds : SwitchToTab(n)
    \/ \E n \in NoteIds : CloseTab(n)
    \/ SaveCurrentNote
    \/ SaveResume
    \/ AutoSaveFire
    \/ ToggleAutoSave
    \/ Reload
    \/ \E c \in Colors : \E f \in Offsets : \E t \in Offsets : ApplyHighlight(c, f, t)
    \/ \E f \in Offsets : \E t \in Offsets : RemoveHighlight(f, t)

Spec == Init /\ [][Next]_vars

\* the same session with vault imports among the events
VaultNext ==
    \/ Next
    \/ \E ids \in {{}, NoteIds} : ImportVault(ids)

VaultSpec == Init /\ [][VaultNext]_vars

\* ================================================================ mode controller
\* The edit / preview / split modes, the editable preview and the two
\* debounce timers. Every setTimeout is kept with its id, so that a
\* callback that was not cancelled can still run; only the events of the
\* user count against MaxSteps, the callbacks of timers and of the record
\* store run whenever they are due.
Modes == <<"edit", "preview", "split">>

\* a timeout that is not cancelled although its handle is given up
clearTimeoutForgotten(ts, id) == ts

\* a switch to edit mode that never flushes the preview
flushNever(editing, handle) == FALSE

\* a preview that stays editable in every mode
contentEditableAlways(actualMode) == TRUE

\* marked.parse + DOMPurify.sanitize, then innerText: the marker of an ATX
\* heading ("# " before the text, or a lone "#") is not part of the text
renderMarkdown(content) ==
    IF content = <<"#">> THEN <<>>
    ELSE IF Len(content) >= 2 /\ content[1] = "#" /\ content[2] = " "
    THEN Slice(content, 2, Len(content))
    ELSE content

\* A note with a heading, written by an earlier session
HeadingRecord ==
    [content |-> <<"#", " ", "a">>,
     highlights |-> <<Span(2, 3, <<"a">>, "yellow")>>]

pendingFn(ts, fn) == {t \in ts : t.fn = fn}

\* setTimeout returns an id that was never returned before
nextTimeoutId(hs) == 1 + Max(hs.autoSave, hs.previewSync)

clearTimeout(ts, id) == {t \in ts : t.id # id}

\* resetAutoSaveTimer() on the timers tm = [timeouts, handle]
resetAutoSaveTimeout(tm) ==
    IF ~autoSave THEN tm
    ELSE [timeouts |-> clearTimeout(tm.timeouts, tm.handle.autoSave)
                         \cup {[id |-> nextTimeoutId(tm.handle), fn |-> "autoSave"]},
          handle |-> [tm.handle EXCEPT !.autoSave = nextTimeoutId(tm.handle)]]

\* updatePreview(): the preview is rendered again from the editor text,
\* except in edit mode and while the user is typing in it
updatePreview(mode, editing, content, shown) ==
    IF mode = "edit" \/ editing THEN shown ELSE renderMarkdown(content)

\* the timers written back, with the flag of a pending autosave
setTimers(tm) ==
    /\ timeouts' = tm.timeouts
    /\ timerHandle' = tm.handle
    /\ autoSaveTimer' = (pendingFn(tm.timeouts, "autoSave") # {})

\* _syncPreviewToEditor() in mode `mode`, with the timeouts ts still pending:
\* editor.setValue(preview.innerText) runs the change handler (the markers
\* lose their ranges, the preview is updated, the autosave timer restarted),
\* then the autosave timer is restarted once more
syncPreviewToEditor(mode, editing, ts) ==
    LET tm0 == [timeouts |-> ts, handle |-> timerHandle]
        tm1 == IF currentNoteId # NULL THEN resetAutoSaveTimeout(tm0) ELSE tm0
    IN /\ editorValue' = previewInnerText
       /\ activeHighlightMarkers' = markersAfterSetValue(activeHighlightMarkers)
       /\ hasUnsavedChanges' = TRUE
       /\ previewInnerText' = IF currentNoteId # NULL
                              THEN updatePreview(mode, editing, previewInnerText,
                                                 previewInnerText)
                              ELSE previewInnerText
       /\ setTimers(resetAutoSaveTimeout(tm1))

\* _previewEditing && _previewSyncTimer
flushPending(editing, handle) == editing /\ handle # 0

\* markdownPreview.contentEditable as switchEditorTab(actualMode) sets it
contentEditable(actualMode) == actualMode = "preview"

\* switchEditorTab(actualMode)
switchEditorTab(actualMode) ==
    /\ currentEditMode' = actualMode
    /\ previewEditing' = FALSE
    /\ previewEditable' = contentEditable(actualMode)
    /\ IF actualMode = "edit"
       THEN IF flushPending(previewEditing, timerHandle.previewSync)
            THEN syncPreviewToEditor(actualMode, previewEditing,
                                     clearTimeout(timeouts, timerHandle.previewSync))
            ELSE UNCHANGED <<editorValue, activeHighlightMarkers, hasUnsavedChanges,
                             previewInnerText, timeouts, timerHandle, autoSaveTimer>>
       ELSE /\ previewInnerText' = updatePreview(actualMode, FALSE, editorValue,
                                                 previewInnerText)
            /\ UNCHANGED <<editorValue, activeHighlightMarkers, hasUnsavedChanges,
                           timeouts, timerHandle, autoSaveTimer>>
    /\ UNCHANGED <<notes, db, autoSave, lastOpenedNote, currentNoteId, openTabs,
                   savesInFlight, toast, projVars, searchVars, treeVars>>

\* a click on a view-mode button
SwitchEditorTab(mode) ==
    /\ switchEditorTab(mode)
    /\ Tick

\* toggleEditMode(): the next of edit, preview, split
ToggleEditMode ==
    /\ switchEditorTab(Modes[((CHOOSE i \in 1..3 : Modes[i] = currentEditMode) % 3) + 1])
    /\ Tick

\* editor.on('change') after the user types character c at offset p of the
\* editor pane (shown in edit and split mode)
TypeInEditor(p, c) ==
    /\ currentNoteId # NULL
    /\ currentEditMode # "preview"
    /\ editorValue' = InsertAt(editorValue, p, c)
    /\ activeHighlightMarkers' =
         [i \in DOMAIN activeHighlightMarkers |->
            [activeHighlightMarkers[i] EXCEPT !.range = rangeAfterInsert(@, p, 1)]]
    /\ hasUnsavedChanges' = TRUE
    /\ previewInnerText' = updatePreview(currentEditMode, previewEditing,
                                         InsertAt(editorValue, p, c), previewInnerText)
    /\ setTimers(resetAutoSaveTimeout([timeouts |-> timeouts, handle |-> timerHandle]))
    /\ UNCHANGED <<notes, db, autoSave, lastOpenedNote, currentNoteId, openTabs,
                   savesInFlight, toast, currentEditMode, previewEditing, previewEditable,
                   projVars, searchVars, treeVars>>
    /\ Tick

\* _previewInputListener after the user types character c at offset p of the
\* editable preview
PreviewInput(p, c) ==
    /\ previewEditable
    /\ previewInnerText' = InsertAt(previewInnerText, p, c)
    /\ previewEditing' = TRUE
    /\ timeouts' = clearTimeout(timeouts, timerHandle.previewSync)
                     \cup {[id |-> nextTimeoutId(timerHandle), fn |-> "previewSync"]}
    /\ timerHandle' = [timerHandle EXCEPT !.previewSync = nextTimeoutId(timerHandle)]
    /\ UNCHANGED <<notes, db, autoSave, lastOpenedNote, currentNoteId, openTabs,
                   hasUnsavedChanges, autoSaveTimer, editorValue, activeHighlightMarkers,
                   savesInFlight, toast, currentEditMode, previewEditable, projVars,
                   searchVars, treeVars>>
    /\ Tick

\* a click on a note in the file explorer, in whatever mode is showing:
\* openNote(noteId), whose last calls are updatePreview() and
\* switchEditorTab(currentEditMode). No timeout is cancelled unless the mode
\* is edit and a preview input awaits its sync.
OpenNoteInMode(noteId) ==
    LET content == notes[noteId].content
        r == applyHighlightMarkers(markersAfterSetValue(activeHighlightMarkers),
                                   notes[noteId].highlights, noteId, content)
        shown == updatePreview(currentEditMode, previewEditing, content, previewInnerText)
        tm0 == [timeouts |-> clearTimeout(timeouts, timerHandle.previewSync),
                handle |-> timerHandle]
    IN /\ currentEditMode' = currentEditMode
       /\ previewEditing' = FALSE
       /\ previewEditable' = contentEditable(currentEditMode)
       /\ IF currentEditMode = "edit" /\ flushPending(previewEditing, timerHandle.previewSync)
          THEN /\ openTabs' = IF Contains(openTabs, noteId) THEN openTabs
                              ELSE Append(openTabs, noteId)
               /\ currentNoteId' = noteId
               /\ lastOpenedNote' = noteId
               /\ notes' = [notes EXCEPT ![noteId].highlights = r.highlights]
               /\ editorValue' = shown
               /\ activeHighlightMarkers' = markersAfterSetValue(r.markers)
               /\ hasUnsavedChanges' = TRUE
               /\ previewInnerText' = shown
               /\ setTimers(resetAutoSaveTimeout(resetAutoSaveTimeout(tm0)))
          ELSE /\ openNote(notes, openTabs, noteId)
               /\ previewInnerText' = updatePreview(currentEditMode, FALSE, content, shown)
               /\ UNCHANGED <<timeouts, timerHandle, autoSaveTimer>>
       /\ UNCHANGED <<db, autoSave, savesInFlight, toast, projVars, searchVars, treeVars>>
       /\ Tick

\* the callback of the preview-sync timeout t, 800 ms after it was set
PreviewSyncTimeout(t) ==
    /\ t \in pendingFn(timeouts, "previewSync")
    /\ syncPreviewToEditor(currentEditMode, previewEditing, timeouts \ {t})
    /\ previewEditing' = FALSE
    /\ UNCHANGED <<notes, db, autoSave, lastOpenedNote, currentNoteId, openTabs,
                   savesInFlight, toast, steps, currentEditMode, previewEditable,
                   projVars, searchVars, treeVars>>

\* the callback of the autosave timeout t, 3 s after it was set
AutoSaveTimeout(t) ==
    /\ t \in pendingFn(timeouts, "autoSave")
    /\ setTimers([timeouts |-> timeouts \ {t}, handle |-> timerHandle])
    /\ IF hasUnsavedChanges /\ currentNoteId # NULL /\ currentNoteId \in DOMAIN notes
       THEN /\ notes' = savedNotes(notes)
            /\ db' = saveNote(db, savedNotes(notes), currentNoteId)
            /\ savesInFlight' = savesInFlight + 1
       ELSE UNCHANGED <<notes, db, savesInFlight>>
    /\ UNCHANGED <<autoSave, lastOpenedNote, currentNoteId, openTabs, hasUnsavedChanges,
                   editorValue, activeHighlightMarkers, toast, steps, currentEditMode,
                   previewInnerText, previewEditing, previewEditable, projVars,
                   searchVars, treeVars>>

\* tx.oncomplete of saveNote: saveCurrentNote goes on after its await
SaveNoteComplete ==
    /\ savesInFlight > 0
    /\ savesInFlight' = savesInFlight - 1
    /\ hasUnsavedChanges' = FALSE
    /\ toast' = ToastSaved
    /\ UNCHANGED <<notes, db, autoSave, lastOpenedNote, currentNoteId, openTabs,
                   autoSaveTimer, editorValue, activeHighlightMarkers, steps, modeVars,
                   projVars, searchVars, treeVars>>

ModeInit ==
    /\ \E auto \in BOOLEAN :
         Loaded([n \in NoteIds |-> IF n = "n1" THEN HeadingRecord ELSE CleanRecord],
                auto, "n1")
    /\ EditModeIdle
    /\ NoProjection
    /\ SearchIdle
    /\ TreeIdle

PreviewOffsets == 0..Len(previewInnerText)

ModeNext ==
    \/ \E mode \in {"edit", "preview", "split"} : SwitchEditorTab(mode)
    \/ ToggleEditMode
    \/ \E p \in Offsets : \E c \in Keys : TypeInEditor(p, c)
    \/ \E p \in PreviewOffsets : \E c \in Keys : PreviewInput(p, c)
    \/ \E n \in NoteIds : OpenNoteInMode(n)
    \/ \E t \in timeouts : PreviewSyncTimeout(t)
    \/ \E t \in timeouts : AutoSaveTimeout(t)
    \/ SaveNoteComplete

\* a timeout that is due runs, and the record store completes its writes
ModeSpec ==
    /\ ModeInit
    /\ [][ModeNext]_vars
    /\ WF_vars(\E t \in timeouts : PreviewSyncTimeout(t))
    /\ WF_vars(\E t \in timeouts : AutoSaveTimeout(t))
    /\ WF_vars(SaveNoteComplete)

\* ================================================================ preview projection
\* applyHighlightsToPreview on a rendered preview. The container is kept as
\* its text nodes in document order, each with the colors of the <mark>
\* elements around it, outermost first.
Alphabet == {"a", "b"}

Whitespace == {" ", "\n"}

\* String.prototype.trim
RECURSIVE trimStart(_)
trimStart(str) ==
    IF str # <<>> /\ str[1] \in Whitespace THEN trimStart(Tail(str)) ELSE str

RECURSIVE trimEnd(_)
trimEnd(str) ==
    IF str # <<>> /\ str[Len(str)] \in Whitespace
    THEN trimEnd(SubSeq(str, 1, Len(str) - 1)) ELSE str

trim(str) == trimEnd(trimStart(str))

\* previewText if it has any text, else the raw text stripped of markdown
matchText(h) ==
    IF trim(h.previewText) # <<>> THEN trim(h.previewText)
    ELSE IF h.text # <<>> THEN trim(markdownToPlainText(h.text))
    ELSE <<>>

\* Array.prototype.sort((a, b) => b.matchText.length - a.matchText.length),
\* a stable sort: h goes before the first span of `sorted` that is shorter
RECURSIVE insertByLength(_, _)
insertByLength(sorted, h) ==
    IF sorted = <<>> THEN <<h>>
    ELSE IF Len(matchText(sorted[1])) < Len(matchText(h)) THEN <<h>> \o sorted
    ELSE <<sorted[1]>> \o insertByLength(Tail(sorted), h)

RECURSIVE sortByLength(_, _)
sortByLength(hl, i) ==
    IF i = 0 THEN <<>> ELSE insertByLength(sortByLength(hl, i - 1), hl[i])

\* an indexOf that reports position 0 for a text that does not occur
indexOfNeverMissing(text, searchText) ==
    LET at == {i \in 0..(Len(text) - Len(searchText)) :
                 Slice(text, i, i + Len(searchText)) = searchText}
    IN IF at = {} THEN 0 ELSE CHOOSE i \in at : \A j \in at : i <= j

\* String.prototype.indexOf, -1 when searchText does not occur
indexOf(text, searchText) ==
    LET at == {i \in 0..(Len(text) - Len(searchText)) :
                 Slice(text, i, i + Len(searchText)) = searchText}
    IN IF at = {} THEN -1 ELSE CHOOSE i \in at : \A j \in at : i <= j

textNode(text, marks) == [text |-> text, marks |-> marks]

\* a fragment that forgets the text after the match
markedFragmentWithoutAfter(node, idx, searchText, color) ==
    (IF Slice(node.text, 0, idx) # <<>>
     THEN <<textNode(Slice(node.text, 0, idx), node.marks)>> ELSE <<>>)
    \o <<textNode(searchText, Append(node.marks, color))>>

\* the fragment that replaces a text node in which searchText occurs at idx
markedFragment(node, idx, searchText, color) ==
    LET before == Slice(node.text, 0, idx)
        after == Slice(node.text, idx + Len(searchText), Len(node.text))
    IN (IF before # <<>> THEN <<textNode(before, node.marks)>> ELSE <<>>)
       \o <<textNode(searchText, Append(node.marks, color))>>
       \o (IF after # <<>> THEN <<textNode(after, node.marks)>> ELSE <<>>)

\* highlightTextInContainer: every text node collected by the TreeWalker,
\* those inside earlier marks included, has its first occurrence wrapped
RECURSIVE highlightTextInContainer(_, _, _)
highlightTextInContainer(nodes, searchText, color) ==
    IF nodes = <<>> THEN <<>>
    ELSE LET idx == indexOf(nodes[1].text, searchText)
         IN (IF idx = -1 THEN <<nodes[1]>>
             ELSE markedFragment(nodes[1], idx, searchText, color))
            \o highlightTextInContainer(Tail(nodes), searchText, color)

RECURSIVE highlightAll(_, _, _)
highlightAll(nodes, sorted, i) ==
    IF i > Len(sorted) THEN nodes
    ELSE highlightAll(highlightTextInContainer(nodes, matchText(sorted[i]),
                                               sorted[i].color),
                      sorted, i + 1)

applyHighlightsToPreview(nodes, highlights) ==
    LET withText == SelectSeq(highlights, LAMBDA h : matchText(h) # <<>>)
    IN highlightAll(nodes, sortByLength(withText, Len(withText)), 1)

\* the texts of at most n characters
Texts(n) == UNION {[1..k -> Alphabet] : k \in 0..n}

\* a highlight of the text txt, with the previewText applyHighlight captures
\* or, as in notes written before previewText was stored, with none; an
\* imported highlight can have no text at all
PreviewSpans(txt, color) ==
    {[Span(0, Len(txt), txt, color) EXCEPT !.previewText = pt] :
       pt \in {<<>>, markdownToPlainText(txt)}}

\* updatePreview has rendered one paragraph of text and is about to project
\* the two highlights of the note onto it
ProjInit ==
    /\ Loaded([n \in NoteIds |-> CleanRecord], FALSE, "n1")
    /\ EditModeIdle
    /\ \E rendered \in Texts(MaxRendered) : previewNodes = <<textNode(rendered, <<>>)>>
    /\ \E t1 \in Texts(MaxMatch) : \E t2 \in Texts(MaxMatch) :
         \E h1 \in PreviewSpans(t1, "yellow") : \E h2 \in PreviewSpans(t2, "green") :
            previewSpans = <<h1, h2>>
    /\ projected = FALSE
    /\ SearchIdle
    /\ TreeIdle

ApplyHighlightsToPreview ==
    /\ ~projected
    /\ previewNodes' = applyHighlightsToPreview(previewNodes, previewSpans)
    /\ projected' = TRUE
    /\ UNCHANGED <<notes, db, autoSave, lastOpenedNote, currentNoteId, openTabs,
                   hasUnsavedChanges, autoSaveTimer, editorValue, activeHighlightMarkers,
                   savesInFlight, toast, steps, modeVars, previewSpans, searchVars, treeVars>>

ProjNext == ApplyHighlightsToPreview

ProjSpec == ProjInit /\ [][ProjNext]_vars

\* ================================================================ search panel
\* performSearch and the controls of the search panel. A query is a text
\* over a letter, the wildcard "." and "(", which opens a group that the
\* query cannot close: as a regular expression such a query is malformed.
QueryChars == {"a", ".", "("}

Queries == UNION {[1..k -> QueryChars] : k \in 0..MaxQuery}

\* A note whose text has the letter in both cases and a parenthesis
SearchRecord == [content |-> <<"a", "(", "A">>, highlights |-> <<>>]

\* a clearSearchHighlights that leaves the matches and markers in place
clearSearchHighlightsKeeping(st) == st

\* new RegExp(query, flags) throws a SyntaxError: an unterminated group
throwsSyntaxError(query) == \E i \in DOMAIN query : query[i] = "("

toLowerCase(c) == IF c = "A" THEN "a" ELSE c

\* \w of the regular expression
isWordChar(c) == c \in {"a", "A"}

\* \b at offset k of the content
wordBoundary(content, k) ==
    LET wordAt(j) == j >= 1 /\ j <= Len(content) /\ isWordChar(content[j])
    IN wordAt(k) # wordAt(k + 1)

\* one character of the pattern against one character of the content: "."
\* is a wildcard in a regular expression and escaped otherwise; without
\* matchCase the flag i is set
charMatches(q, c, st) ==
    IF st.useRegex /\ q = "." THEN TRUE
    ELSE IF st.matchCase THEN q = c
    ELSE toLowerCase(q) = toLowerCase(c)

\* the pattern built from st.query matches the content at offset i
matchesAt(content, st, i) ==
    /\ i + Len(st.query) <= Len(content)
    /\ \A k \in 1..Len(st.query) : charMatches(st.query[k], content[i + k], st)
    /\ (st.wholeWord /\ ~st.useRegex) =>
          wordBoundary(content, i) /\ wordBoundary(content, i + Len(st.query))

\* the loop of pattern.exec(content) from lastIndex = i
RECURSIVE execAll(_, _, _)
execAll(content, st, i) ==
    IF i + Len(st.query) > Len(content) THEN <<>>
    ELSE IF matchesAt(content, st, i)
    THEN <<[from |-> i, to |-> i + Len(st.query),
            text |-> Slice(content, i, i + Len(st.query))]>>
         \o execAll(content, st, i + Len(st.query))
    ELSE execAll(content, st, i + 1)

\* highlightMatchesOnly / the markers of jumpToMatch: one marker per match,
\* the one at `index` (0-based) with the class of the current match
searchMarkers(matches, index) ==
    [k \in DOMAIN matches |->
       [range |-> <<matches[k].from, matches[k].to>>, current |-> (k - 1 = index)]]

clearSearchHighlights(st) ==
    [st EXCEPT !.markers = <<>>, !.matches = <<>>, !.currentMatchIndex = -1]

\* performSearch() with the search input holding `input`
performSearch(st, input, content) ==
    LET cleared == clearSearchHighlights([st EXCEPT !.query = input])
        found == execAll(content, cleared, 0)
        first == IF Len(found) > 0 /\ cleared.currentMatchIndex = -1
                 THEN 0 ELSE cleared.currentMatchIndex
        index == IF first >= Len(found)
                 THEN (IF Len(found) > 0 THEN 0 ELSE -1)
                 ELSE first
    IN IF input = <<>> THEN cleared
       ELSE IF st.useRegex /\ throwsSyntaxError(input) THEN cleared
       ELSE [cleared EXCEPT !.matches = found, !.currentMatchIndex = index,
                            !.markers = cleared.markers \o searchMarkers(found, index)]

\* jumpToMatch(index): every marker is made again, the one at index current
jumpToMatch(st, index) ==
    IF Len(st.matches) = 0 THEN st
    ELSE [st EXCEPT !.markers = [k \in DOMAIN st.markers |->
                                   searchMarkers(st.matches, index)[k]],
                    !.currentMatchIndex = index]

\* what the search panel leaves alone
searchFrame ==
    UNCHANGED <<notes, db, autoSave, lastOpenedNote, currentNoteId, openTabs,
                hasUnsavedChanges, autoSaveTimer, editorValue, activeHighlightMarkers,
                savesInFlight, toast, steps, modeVars, projVars, treeVars>>

\* the `input` listener of the search box
SearchInput(q) ==
    /\ searchInput' = q
    /\ searchState' = performSearch(searchState, q, editorValue)
    /\ searchFrame

\* toggleMatchCase / toggleWholeWord / toggleRegex
toggled(st) ==
    IF st.query # <<>> THEN performSearch(st, searchInput, editorValue) ELSE st

ToggleMatchCase ==
    /\ searchState' = toggled([searchState EXCEPT !.matchCase = ~@])
    /\ UNCHANGED searchInput
    /\ searchFrame

ToggleWholeWord ==
    /\ searchState' = toggled([searchState EXCEPT !.wholeWord = ~@])
    /\ UNCHANGED searchInput
    /\ searchFrame

ToggleRegex ==
    /\ searchState' = toggled([searchState EXCEPT !.useRegex = ~@])
    /\ UNCHANGED searchInput
    /\ searchFrame

\* findNext / findPrevious: a search is run first when there are no matches
searched(st) ==
    IF Len(st.matches) = 0 THEN performSearch(st, searchInput, editorValue) ELSE st

FindNext ==
    /\ LET st == searched(searchState)
       IN searchState' = IF Len(st.matches) = 0 THEN st
                         ELSE jumpToMatch(st, (st.currentMatchIndex + 1) % Len(st.matches))
    /\ UNCHANGED searchInput
    /\ searchFrame

FindPrevious ==
    /\ LET st == searched(searchState)
       IN searchState' = IF Len(st.matches) = 0 THEN st
                         ELSE jumpToMatch(st, IF st.currentMatchIndex - 1 < 0
                                              THEN Len(st.matches) - 1
                                              ELSE st.currentMatchIndex - 1)
    /\ UNCHANGED searchInput
    /\ searchFrame

CloseSearchPanel ==
    /\ searchState' = clearSearchHighlights(searchState)
    /\ UNCHANGED searchInput
    /\ searchFrame

\* the texts the user puts into the replace input
ReplaceTexts == {<<>>, <<"b">>}

\* doc.replaceRange(text, from, to) on the text and on a marker range;
\* positions past the end of the document are clipped to it
replaceRange(content, text, f, t) ==
    LET from == clipIndex(f, Len(content))
        to == clipIndex(t, Len(content))
    IN Slice(content, 0, from) \o text \o Slice(content, to, Len(content))

rangeAfterReplace(r, content, text, f, t) ==
    LET from == clipIndex(f, Len(content))
        to == clipIndex(t, Len(content))
    IN rangeAfterInsert(IF from < to THEN rangeAfterDelete(r, from, to) ELSE r,
                        from, Len(text))

\* the change handler of the editor after replaceRange calls
replaced(content, ms) ==
    /\ editorValue' = content
    /\ activeHighlightMarkers' = ms
    /\ hasUnsavedChanges' = TRUE
    /\ autoSaveTimer' = IF currentNoteId # NULL THEN resetAutoSaveTimer(autoSaveTimer)
                        ELSE autoSaveTimer
    /\ UNCHANGED <<notes, db, autoSave, lastOpenedNote, currentNoteId, openTabs,
                   savesInFlight, steps, modeVars, projVars, treeVars, searchInput>>

\* replaceOne() with `text` in the replace input. updateNoteInMemory is
\* called and defined nowhere in the file: the call throws a ReferenceError
\* and ends the handler, unless another script of the page defines it.
ReplaceOne(text, defined) ==
    /\ searchState.currentMatchIndex >= 0
    /\ LET match == searchState.matches[searchState.currentMatchIndex + 1]
           content == replaceRange(editorValue, text, match.from, match.to)
           moved == [searchState EXCEPT !.markers =
                       [k \in DOMAIN @ |->
                          [@[k] EXCEPT !.range =
                             rangeAfterReplace(@, editorValue, text, match.from,
                                               match.to)]]]
       IN /\ replaced(content,
                      [k \in DOMAIN activeHighlightMarkers |->
                         [activeHighlightMarkers[k] EXCEPT !.range =
                            rangeAfterReplace(@, editorValue, text, match.from,
                                              match.to)]])
          /\ searchState' = IF defined THEN performSearch(moved, searchInput, content)
                            ELSE moved
    /\ UNCHANGED toast

\* the loop of replaceAll over matches[1..i], the last match first
RECURSIVE replaceMatches(_, _, _, _)
replaceMatches(content, matches, text, i) ==
    IF i = 0 THEN content
    ELSE replaceMatches(replaceRange(content, text, matches[i].from, matches[i].to),
                        matches, text, i - 1)

RECURSIVE rangeAfterReplaces(_, _, _, _, _)
rangeAfterReplaces(r, content, matches, text, i) ==
    IF i = 0 THEN r
    ELSE rangeAfterReplaces(
           rangeAfterReplace(r, content, text, matches[i].from, matches[i].to),
           replaceRange(content, text, matches[i].from, matches[i].to),
           matches, text, i - 1)

\* replaceAll() with `text` in the replace input
ReplaceAll(text, defined) ==
    /\ Len(searchState.matches) > 0
    /\ LET all == searchState.matches
           moved == [searchState EXCEPT !.markers =
                       [k \in DOMAIN @ |->
                          [@[k] EXCEPT !.range =
                             rangeAfterReplaces(@, editorValue, all, text, Len(all))]]]
       IN /\ replaced(replaceMatches(editorValue, all, text, Len(all)),
                      [k \in DOMAIN activeHighlightMarkers |->
                         [activeHighlightMarkers[k] EXCEPT !.range =
                            rangeAfterReplaces(@, editorValue, all, text, Len(all))]])
          /\ searchState' = IF defined
                            THEN [clearSearchHighlights(moved) EXCEPT !.query = <<>>]
                            ELSE moved
          /\ toast' = IF defined THEN ToastReplaced ELSE toast

SearchInit ==
    /\ Loaded([n \in NoteIds |-> SearchRecord], FALSE, "n1")
    /\ EditModeIdle
    /\ NoProjection
    /\ SearchIdle
    /\ TreeIdle

SearchNext ==
    \/ \E q \in Queries : SearchInput(q)
    \/ ToggleMatchCase
    \/ ToggleWholeWord
    \/ ToggleRegex
    \/ FindNext
    \/ FindPrevious
    \/ CloseSearchPanel
    \/ \E text \in ReplaceTexts : \E defined \in BOOLEAN : ReplaceOne(text, defined)
    \/ \E text \in ReplaceTexts : \E defined \in BOOLEAN : ReplaceAll(text, defined)

SearchSpec == SearchInit /\ [][SearchNext]_vars

\* ================================================================ folder tree
\* Dragging a folder onto another folder (handleDrop) or onto the root
\* area (handleRootDrop). folders maps each folder to its parentFolderId.
\* The order field, which a reorder also sets, is read by no condition of
\* these handlers and is left out. Each handler assigns parentFolderId
\* before its first await, so a drop is one step.
ToastCannotMove == "Cannot move folder into itself or its children"
ToastFolderReordered == "Folder reordered"
ToastFolderNested == "Folder nested"
ToastFolderRoot == "Folder moved to root"

isChildFolderNever(fs, childId, parentId) == FALSE

\* the while loop of isChildFolder: climb from childId until a parent is
\* parentId (true) or there is no parent left (false)
RECURSIVE isChildFolder(_, _, _)
isChildFolder(fs, childId, parentId) ==
    IF childId \notin DOMAIN fs \/ fs[childId] = NULL THEN FALSE
    ELSE IF fs[childId] = parentId THEN TRUE
    ELSE isChildFolder(fs, fs[childId], parentId)

\* the while loop of getFolderDepth: the number of parents above folderId
RECURSIVE getFolderDepth(_, _)
getFolderDepth(fs, folderId) ==
    IF folderId \notin DOMAIN fs \/ fs[folderId] = NULL THEN 0
    ELSE 1 + getFolderDepth(fs, fs[folderId])

\* handleDrop with draggedType 'folder'; isReorder tells a plain drop from
\* a drop with Shift held (nest)
handleDrop(draggedFolderId, targetFolderId, isReorder) ==
    /\ draggedFolderId \in DOMAIN folders
    /\ targetFolderId \in DOMAIN folders
    /\ IF \/ draggedFolderId = targetFolderId
          \/ isChildFolder(folders, targetFolderId, draggedFolderId)
       THEN /\ toast' = ToastCannotMove
            /\ UNCHANGED folders
       ELSE IF isReorder
       THEN /\ folders' = [folders EXCEPT ![draggedFolderId] = folders[targetFolderId]]
            /\ toast' = ToastFolderReordered
       ELSE /\ folders' = [folders EXCEPT ![draggedFolderId] = targetFolderId]
            /\ toast' = ToastFolderNested
    /\ UNCHANGED <<notes, db, autoSave, lastOpenedNote, currentNoteId, openTabs,
                   hasUnsavedChanges, autoSaveTimer, editorValue,
                   activeHighlightMarkers, savesInFlight, steps, modeVars,
                   projVars, searchVars, noteFolderId, pendingDelete>>

DropReorder(draggedFolderId, targetFolderId) ==
    handleDrop(draggedFolderId, targetFolderId, TRUE)

DropNest(draggedFolderId, targetFolderId) ==
    handleDrop(draggedFolderId, targetFolderId, FALSE)

\* handleRootDrop with draggedType 'folder'
handleRootDrop(folderId) ==
    /\ folderId \in DOMAIN folders
    /\ folders' = [folders EXCEPT ![folderId] = NULL]
    /\ toast' = ToastFolderRoot
    /\ UNCHANGED <<notes, db, autoSave, lastOpenedNote, currentNoteId, openTabs,
                   hasUnsavedChanges, autoSaveTimer, editorValue,
                   activeHighlightMarkers, savesInFlight, steps, modeVars,
                   projVars, searchVars, noteFolderId, pendingDelete>>

FolderInit == Init

FolderNext ==
    \/ \E d \in FolderIds : \E t \in FolderIds : DropReorder(d, t)
    \/ \E d \in FolderIds : \E t \in FolderIds : DropNest(d, t)
    \/ \E d \in FolderIds : handleRootDrop(d)

FolderSpec == FolderInit /\ [][FolderNext]_vars

\* ================================================================ deleting notes
\* confirmDelete (a note, or a folder with every note and folder below
\* it) and clearAllData. Each `await deleteNote(id)` and each
\* `await deleteFolder(id)` is a point where the call is suspended:
\* pendingDelete holds what it still has to do, and the callbacks of the
\* autosave timer and of a save in flight can run before it resumes. A
\* delete is issued to the record store when it is called and takes
\* effect in the order of the calls. The store of the folders is not
\* modelled. The steps of the user wait until the call has finished (the
\* modal covers the page); a resumed call does not count against MaxSteps.
ToastNoteDeleted == "Note deleted"
ToastFolderDeleted == "Folder deleted"
ToastCleared == "All data cleared"

\* the order of the notes in the array `notes`
NoteOrder == <<"n1", "n2">>

\* notes.filter / folders.filter: the function without the keys in S
Remove(f, S) == [x \in DOMAIN f \ S |-> f[x]]

\* deleteNote(id): the record under id leaves the store
deleteNote(store, id) == Remove(store, {id})

RECURSIVE getAllSubfolders(_, _)
getAllSubfolders(fs, fid) ==
    LET directChildren == {f \in DOMAIN fs : fs[f] = fid}
    IN directChildren \cup UNION {getAllSubfolders(fs, child) : child \in directChildren}

\* notes.filter(n => foldersToDelete.includes(n.folderId)), in array order
notesIn(ns, fs) ==
    SelectSeq(NoteOrder, LAMBDA n : n \in DOMAIN ns /\ noteFolderId[n] \in fs)

\* the empty state: currentNoteId = null and editor.setValue(''), whose
\* change event is not suppressed
showEmpty ==
    /\ currentNoteId' = NULL
    /\ editorValue' = <<>>
    /\ activeHighlightMarkers' = markersAfterSetValue(activeHighlightMarkers)
    /\ hasUnsavedChanges' = TRUE

\* confirmDelete with deleteTarget.type 'note', up to `await deleteNote`
ConfirmDeleteNote(id) ==
    /\ pendingDelete = NoDelete
    /\ id \in DOMAIN notes
    /\ db' = deleteNote(db, id)
    /\ pendingDelete' = [NoDelete EXCEPT !.type = "note", !.id = id,
                                         !.stage = "notes", !.awaited = id]
    /\ Tick
    /\ UNCHANGED <<notes, autoSave, lastOpenedNote, currentNoteId, openTabs,
                   hasUnsavedChanges, autoSaveTimer, editorValue,
                   activeHighlightMarkers, savesInFlight, toast, modeVars,
                   projVars, searchVars, folders, noteFolderId>>

\* confirmDelete of a note resumed: the note leaves `notes` and closeTab
\* closes its tab. The saveCurrentNote that closeTab may call finds no
\* note under currentNoteId and returns.
ConfirmDeleteNoteResume ==
    /\ pendingDelete.type = "note"
    /\ LET id == pendingDelete.id
           ns1 == Remove(notes, {id})
           tabIndex == IndexOf(openTabs, id)
           tabs1 == RemoveAt(openTabs, tabIndex)
       IN IF ~Contains(openTabs, id)
          THEN /\ notes' = ns1
               /\ UNCHANGED <<openTabs, currentNoteId, editorValue,
                              activeHighlightMarkers, hasUnsavedChanges, lastOpenedNote>>
          ELSE IF id # currentNoteId
          THEN /\ notes' = ns1
               /\ openTabs' = tabs1
               /\ UNCHANGED <<currentNoteId, editorValue, activeHighlightMarkers,
                              hasUnsavedChanges, lastOpenedNote>>
          ELSE IF Len(tabs1) > 0
          THEN openNote(ns1, tabs1, tabs1[Max(1, tabIndex - 1)])
          ELSE /\ showEmpty
               /\ notes' = ns1
               /\ openTabs' = tabs1
               /\ UNCHANGED lastOpenedNote
    /\ toast' = ToastNoteDeleted
    /\ pendingDelete' = NoDelete
    /\ UNCHANGED <<db, autoSave, autoSaveTimer, savesInFlight, steps, modeVars,
                   projVars, searchVars, folders, noteFolderId>>

\* confirmDelete with deleteTarget.type 'folder', up to its first await
ConfirmDeleteFolder(fid) ==
    /\ pendingDelete = NoDelete
    /\ fid \in DOMAIN folders
    /\ LET foldersToDelete == getAllSubfolders(folders, fid) \cup {fid}
           notesToDelete == notesIn(notes, foldersToDelete)
           p == [NoDelete EXCEPT !.type = "folder", !.id = fid,
                                 !.foldersToDelete = foldersToDelete]
       IN IF notesToDelete # <<>>
          THEN /\ db' = deleteNote(db, Head(notesToDelete))
               /\ pendingDelete' = [p EXCEPT !.stage = "notes",
                                             !.awaited = Head(notesToDelete),
                                             !.noteQueue = Tail(notesToDelete),
                                             !.folderQueue = Cardinality(foldersToDelete)]
          ELSE /\ UNCHANGED db
               /\ pendingDelete' = [p EXCEPT !.stage = "folders",
                                             !.folderQueue = Cardinality(foldersToDelete) - 1]
    /\ Tick
    /\ UNCHANGED <<notes, autoSave, lastOpenedNote, currentNoteId, openTabs,
                   hasUnsavedChanges, autoSaveTimer, editorValue,
                   activeHighlightMarkers, savesInFlight, toast, modeVars,
                   projVars, searchVars, folders, noteFolderId>>

\* the end of clearAllData: folders = [], currentNoteId = null, the
\* editor is emptied; openTabs is not assigned
clearFinish ==
    /\ folders' = Remove(folders, DOMAIN folders)
    /\ showEmpty
    /\ toast' = ToastCleared
    /\ pendingDelete' = NoDelete

\* clearAllData after the confirm dialog, up to its first await
ClearAllData ==
    /\ pendingDelete = NoDelete
    /\ LET all == notesIn(notes, {noteFolderId[n] : n \in DOMAIN notes})
           p == [NoDelete EXCEPT !.type = "clear"]
       IN IF all # <<>>
          THEN /\ db' = deleteNote(db, Head(all))
               /\ pendingDelete' = [p EXCEPT !.stage = "notes", !.awaited = Head(all),
                                             !.noteQueue = Tail(all)]
               /\ UNCHANGED <<notes, folders, currentNoteId, editorValue,
                              activeHighlightMarkers, hasUnsavedChanges, toast>>
          ELSE IF DOMAIN folders # {}
          THEN /\ pendingDelete' = [p EXCEPT !.stage = "folders",
                                             !.folderQueue = Cardinality(DOMAIN folders) - 1]
               /\ UNCHANGED <<db, notes, folders, currentNoteId, editorValue,
                              activeHighlightMarkers, hasUnsavedChanges, toast>>
          ELSE /\ clearFinish
               /\ UNCHANGED <<db, notes>>
    /\ Tick
    /\ UNCHANGED <<autoSave, lastOpenedNote, openTabs, autoSaveTimer, savesInFlight,
                   modeVars, projVars, searchVars, noteFolderId>>

\* a folder delete or clearAllData resumed after `await deleteNote`: the
\* folder delete takes the tab of the note away; the next note is
\* deleted, or `notes` is filtered and the first folder is deleted
DeleteNotesResume ==
    /\ pendingDelete.type \in {"folder", "clear"}
    /\ pendingDelete.stage = "notes"
    /\ LET p == pendingDelete
           tabs1 == IF p.type = "folder" /\ Contains(openTabs, p.awaited)
                    THEN RemoveAt(openTabs, IndexOf(openTabs, p.awaited))
                    ELSE openTabs
           ns1 == IF p.type = "folder"
                  THEN Remove(notes, {n \in DOMAIN notes : noteFolderId[n] \in p.foldersToDelete})
                  ELSE Remove(notes, DOMAIN notes)
           toDelete == IF p.type = "folder" THEN p.foldersToDelete ELSE DOMAIN folders
       IN IF p.noteQueue # <<>>
          THEN /\ db' = deleteNote(db, Head(p.noteQueue))
               /\ pendingDelete' = [p EXCEPT !.awaited = Head(p.noteQueue),
                                             !.noteQueue = Tail(p.noteQueue)]
               /\ openTabs' = tabs1
               /\ UNCHANGED <<notes, folders, currentNoteId, editorValue,
                              activeHighlightMarkers, hasUnsavedChanges, toast>>
          ELSE IF toDelete # {}
          THEN /\ notes' = ns1
               /\ openTabs' = tabs1
               /\ pendingDelete' = [p EXCEPT !.stage = "folders", !.awaited = NULL,
                                             !.folderQueue = Cardinality(toDelete) - 1]
               /\ UNCHANGED <<db, folders, currentNoteId, editorValue,
                              activeHighlightMarkers, hasUnsavedChanges, toast>>
          ELSE /\ notes' = ns1
               /\ openTabs' = tabs1
               /\ clearFinish
               /\ UNCHANGED db
    /\ UNCHANGED <<autoSave, lastOpenedNote, autoSaveTimer, savesInFlight, steps,
                   modeVars, projVars, searchVars, noteFolderId>>

\* a folder delete or clearAllData resumed after `await deleteFolder`:
\* the next folder is deleted, or the call runs to its end
DeleteFoldersResume ==
    /\ pendingDelete.stage = "folders"
    /\ LET p == pendingDelete
       IN IF p.folderQueue > 0
          THEN /\ pendingDelete' = [p EXCEPT !.folderQueue = @ - 1]
               /\ UNCHANGED <<notes, folders, openTabs, currentNoteId, editorValue,
                              activeHighlightMarkers, hasUnsavedChanges, toast,
                              lastOpenedNote>>
          ELSE IF p.type = "clear"
          THEN /\ clearFinish
               /\ UNCHANGED <<notes, openTabs, lastOpenedNote>>
          ELSE /\ folders' = Remove(folders, p.foldersToDelete)
               /\ toast' = ToastFolderDeleted
               /\ pendingDelete' = NoDelete
               /\ IF currentNoteId # NULL /\ currentNoteId \notin DOMAIN notes
                  THEN IF Len(openTabs) > 0
                       THEN openNote(notes, openTabs, openTabs[1])
                       ELSE /\ showEmpty
                            /\ UNCHANGED <<notes, openTabs, lastOpenedNote>>
                  ELSE UNCHANGED <<notes, openTabs, currentNoteId, editorValue,
                                   activeHighlightMarkers, hasUnsavedChanges,
                                   lastOpenedNote>>
    /\ UNCHANGED <<db, autoSave, autoSaveTimer, savesInFlight, steps, modeVars,
                   projVars, searchVars, noteFolderId>>

\* two notes written by an earlier session; f2 is a subfolder of f1 and
\* each note is at the root, in f1 or in f2
LifeInit ==
    /\ \E last \in NoteIds : \E auto \in BOOLEAN :
         Loaded([n \in NoteIds |-> CleanRecord], auto, last)
    /\ EditModeIdle
    /\ NoProjection
    /\ SearchIdle
    /\ folders = [f \in FolderIds |-> IF f = "f2" THEN "f1" ELSE NULL]
    /\ noteFolderId \in [NoteIds -> {NULL, "f1", "f2"}]
    /\ pendingDelete = NoDelete

LifeNext ==
    \/ pendingDelete = NoDelete /\ \E p \in Offsets : \E c \in Keys : EditInsert(p, c)
    \/ pendingDelete = NoDelete /\ \E n \in DOMAIN notes : OpenNote(n)
    \/ pendingDelete = NoDelete /\ \E n \in DOMAIN notes : SwitchToTab(n)
    \/ pendingDelete = NoDelete /\ \E n \in DOMAIN notes : CloseTab(n)
    \/ pendingDelete = NoDelete /\ SaveCurrentNote
    \/ SaveResume
    \/ AutoSaveFire
    \/ \E n \in NoteIds : ConfirmDeleteNote(n)
    \/ ConfirmDeleteNoteResume
    \/ \E f \in FolderIds : ConfirmDeleteFolder(f)
    \/ ClearAllData
    \/ DeleteNotesResume
    \/ DeleteFoldersResume

LifeSpec == LifeInit /\ [][LifeNext]_vars

\* ================================================================ properties
Cur == notes[currentNoteId]

HasRange(m) == m.range # NoRange

\* the characters a marker range bounds in a text
Bounded(text, r) == Slice(text, r[1], r[2])

InBounds(h, len) == 0 <= h.from /\ h.from < h.to /\ h.to <= len

Disjoint(g, h) == g.to <= h.from \/ g.from >= h.to

\* the steps in which syncHighlightPositionsFromMarkers alone runs on the
\* spans (save, autosave, tab switch, closing the tab of an unsaved note)
ReconcileStep ==
    \/ SaveCurrentNote
    \/ hasUnsavedChanges /\ currentNoteId # NULL /\ AutoSaveFire
    \/ currentNoteId # NULL /\ \E n \in NoteIds : SwitchToTab(n)
    \/ autoSave /\ hasUnsavedChanges /\ CloseTab(currentNoteId)

\* the spans the markers of the state before the step were made for have,
\* after the step, the offsets of those markers
MarkersReadBack ==
    \A i \in DOMAIN activeHighlightMarkers :
        LET m == activeHighlightMarkers[i]
        IN HasRange(m) =>
             /\ notes'[m.note].highlights[m.h].from = m.range[1]
             /\ notes'[m.note].highlights[m.h].to = m.range[2]

\* ---------------------------------------------------------------- C1
\* C1 as claimed: reconcile copies the offsets of every marker that still has
\* a range into its span, and whatever the edit, a marker that keeps a range
\* bounds exactly the same characters after it as before.
C1_SameCharactersAfterAnyEdit ==
    [][ /\ ReconcileStep => MarkersReadBack
        /\ \A i \in DOMAIN activeHighlightMarkers :
             LET r == activeHighlightMarkers[i].range
                 r2 == activeHighlightMarkers'[i].range
             IN ( /\ \/ \E p \in Offsets : \E c \in Keys : EditInsert(p, c)
                     \/ \E d1 \in Offsets : \E d2 \in Offsets : EditDelete(d1, d2)
                  /\ r # NoRange /\ r2 # NoRange )
                => Bounded(editorValue', r2) = Bounded(editorValue, r)
      ]_vars

\* C1 amended: reconcile copies the offsets of every marker that still has a
\* range into its span. An insertion at or before the start of the marker, or
\* at or after its end, and a deletion that does not meet it, leave it
\* bounding exactly the same characters; a character typed strictly inside it
\* joins them, deleted characters leave them, and the marker loses its range
\* exactly when all of them are deleted. Instance: a marker at [3, 6) is at
\* [6, 9) after three characters are inserted at offset 0.
C1_ReconcileTracksMarkers ==
    [][ /\ ReconcileStep => MarkersReadBack
        /\ \A i \in DOMAIN activeHighlightMarkers :
             LET r == activeHighlightMarkers[i].range
                 r2 == activeHighlightMarkers'[i].range
                 was == Bounded(editorValue, r)
             IN r # NoRange =>
                  /\ \A p \in Offsets : \A c \in Keys :
                       EditInsert(p, c) =>
                         /\ r2 # NoRange
                         /\ Bounded(editorValue', r2) =
                              IF r[1] < p /\ p < r[2] THEN InsertAt(was, p - r[1], c)
                              ELSE was
                         /\ (p <= r[1]) => r2 = <<r[1] + 1, r[2] + 1>>
                  /\ \A d1 \in Offsets : \A d2 \in Offsets :
                       EditDelete(d1, d2) =>
                         /\ r2 = NoRange <=> (d1 <= r[1] /\ r[2] <= d2)
                         /\ r2 # NoRange =>
                              Bounded(editorValue', r2) =
                                DeleteRange(was, clipIndex(d1 - r[1], Len(was)),
                                                 clipIndex(d2 - r[1], Len(was)))
        /\ rangeAfterInsert(<<3, 6>>, 0, 3) = <<6, 9>>
      ]_vars

\* a save after a character typed at offset 0 of "ab": the spans [0,1) and
\* [1,2) are stored as [1,2) and [2,3), still bounding "a" and "b"
C1_Witness ==
    /\ currentNoteId = "n1"
    /\ editorValue = <<"c", "a", "b">>
    /\ notes["n1"].content = editorValue
    /\ Len(notes["n1"].highlights) = 2
    /\ notes["n1"].highlights[1].from = 1 /\ notes["n1"].highlights[1].to = 2
    /\ notes["n1"].highlights[1].text = <<"a">>
    /\ notes["n1"].highlights[2].from = 2 /\ notes["n1"].highlights[2].to = 3
    /\ savesInFlight > 0

\* ---------------------------------------------------------------- C2
\* where span i of the open note is in the editor now: the range of its
\* marker when it has one, its stored offsets otherwise
SpanInterval(i) ==
    LET live == {k \in DOMAIN activeHighlightMarkers :
                   /\ activeHighlightMarkers[k].note = currentNoteId
                   /\ activeHighlightMarkers[k].h = i
                   /\ HasRange(activeHighlightMarkers[k])}
    IN IF live = {} THEN <<Cur.highlights[i].from, Cur.highlights[i].to>>
       ELSE activeHighlightMarkers[CHOOSE k \in live : TRUE].range

\* C2: applyHighlight on a non-empty selection [f, t), after any edits and
\* highlight operations, removes every span of the open note whose interval
\* in the edited text intersects [f, t), keeps the other spans whole, and
\* appends exactly one new span {from: f, to: t} with the chosen color and
\* the selected text. Instance: spans [0,3) and [5,8) are both removed by a
\* highlight over [2,6).
C2_OverlapReplaced ==
    [][ /\ \A c \in Colors : \A f \in Offsets : \A t \in Offsets :
             (f < t /\ ApplyHighlight(c, f, t)) =>
               LET old == notes[currentNoteId].highlights
                   new == notes'[currentNoteId].highlights
                   survivors == {i \in DOMAIN old :
                                   SpanInterval(i)[2] <= f \/ SpanInterval(i)[1] >= t}
                   last == new[Len(new)]
               IN /\ Len(new) = Cardinality(survivors) + 1
                  /\ last.from = f /\ last.to = t /\ last.color = c
                  /\ last.text = Slice(editorValue, f, t)
                  /\ \A k \in 1..(Len(new) - 1) : \E i \in survivors : new[k] = old[i]
        /\ keepOutside(<<Span(0, 3, <<>>, "yellow"), Span(5, 8, <<>>, "yellow")>>, 2, 6) = <<>>
      ]_vars

\* ---------------------------------------------------------------- C3
\* C3: no two spans of a note have intersecting [from, to) intervals.
C3_NoOverlap ==
    \A n \in NoteIds :
        \A i \in DOMAIN notes[n].highlights : \A j \in DOMAIN notes[n].highlights :
            i < j => Disjoint(notes[n].highlights[i], notes[n].highlights[j])

\* ---------------------------------------------------------------- C4
\* C4: applyHighlight with an empty selection shows the "Select text to
\* highlight" notice and leaves note.highlights, the markers, the stored
\* record and hasUnsavedChanges as they were.
C4_EmptySelectionRejected ==
    [][ \A c \in Colors : \A f \in Offsets :
          ApplyHighlight(c, f, f) =>
            /\ toast' = ToastSelect
            /\ notes' = notes
            /\ activeHighlightMarkers' = activeHighlightMarkers
            /\ db' = db
            /\ hasUnsavedChanges' = hasUnsavedChanges
      ]_vars

\* the notice is showing and the open note still has its two spans
C4_Witness ==
    /\ toast = ToastSelect
    /\ currentNoteId = "n1"
    /\ notes["n1"] = CleanRecord
    /\ db["n1"] = CleanRecord

\* ---------------------------------------------------------------- C5
\* C5: a rebuild on the open note makes a live marker for a span if and
\* only if 0 <= from < to <= length of the editor text, and leaves none of
\* the old markers.
C5_MarkerIffInBounds ==
    currentNoteId # NULL =>
      LET hl == Cur.highlights
          ms == applyHighlightMarkers(activeHighlightMarkers, hl, currentNoteId,
                                      editorValue).markers
      IN /\ \A i \in DOMAIN hl :
              (\E k \in DOMAIN ms : ms[k].h = i /\ HasRange(ms[k]))
                <=> InBounds(hl[i], Len(editorValue))
         /\ Len(ms) <= Len(hl)

\* ---------------------------------------------------------------- C6
\* C6: opening a note, which replaces the editor text and rebuilds the
\* markers, changes no span of any note, and a rebuild on the open note
\* returns note.highlights as it was, skipped spans included.
C6_RebuildKeepsSpans ==
    [][ /\ (\E n \in NoteIds : OpenNote(n)) => notes' = notes
        /\ currentNoteId # NULL =>
             applyHighlightMarkers(activeHighlightMarkers, Cur.highlights, currentNoteId,
                                   editorValue).highlights = Cur.highlights
      ]_vars

\* the imported note opened from the other note: its span [1,3) is past
\* the end of "ab", has no marker and is still stored
C6_Witness ==
    /\ openTabs = <<"n1", "n2">>
    /\ currentNoteId = "n2"
    /\ editorValue = <<"a", "b">>
    /\ notes["n2"].highlights = StaleRecord.highlights
    /\ \A k \in DOMAIN activeHighlightMarkers : activeHighlightMarkers[k].h # 2

C8_RoundTrip ==
    [][ /\ SaveCurrentNote => db'[currentNoteId] = notes'[currentNoteId]
        /\ (Reload /\ lastOpenedNote # NULL) =>
             LET rec == db[lastOpenedNote]
             IN (\A i \in DOMAIN rec.highlights : InBounds(rec.highlights[i], Len(rec.content)))
                => /\ Len(activeHighlightMarkers') = Len(rec.highlights)
                   /\ \A i \in DOMAIN rec.highlights :
                        /\ activeHighlightMarkers'[i].range =
                             <<rec.highlights[i].from, rec.highlights[i].to>>
                        /\ activeHighlightMarkers'[i].h = i
                        /\ activeHighlightMarkers'[i].color = rec.highlights[i].color
                   /\ notes'[lastOpenedNote] = rec
      ]_vars

\* the page loaded again after "cab" was saved with its spans [1,2), [2,3)
C8_Witness ==
    /\ currentNoteId = "n1"
    /\ openTabs = <<"n1">>
    /\ savesInFlight = 0 /\ toast = ToastNone
    /\ db["n1"].content = <<"c", "a", "b">>
    /\ notes = db
    /\ editorValue = db["n1"].content
    /\ Len(activeHighlightMarkers) = 2
    /\ activeHighlightMarkers[2].range = <<2, 3>>

\* ---------------------------------------------------------------- C9
\* C9: the span applyHighlight has just made, and every span reconcile has
\* just read back from a marker with a range, satisfies
\* 0 <= from < to <= length of the content of its note.
C9_FreshSpansInBounds ==
    [][ /\ \A c \in Colors : \A f \in Offsets : \A t \in Offsets :
             (f < t /\ ApplyHighlight(c, f, t)) =>
               LET new == notes'[currentNoteId].highlights
               IN InBounds(new[Len(new)], Len(notes'[currentNoteId].content))
        /\ ReconcileStep =>
             \A i \in DOMAIN activeHighlightMarkers :
                 LET m == activeHighlightMarkers[i]
                 IN HasRange(m) =>
                      InBounds(notes'[m.note].highlights[m.h], Len(notes'[m.note].content))
      ]_vars

\* ---------------------------------------------------------------- C10
\* C10: in a reconcile, the span of a marker that has lost its range keeps
\* its from and to and stays in the note, no span is added or removed, and
\* the spans of the markers that have a range take their offsets.
C10_ClearedMarkerSkipped ==
    [][ ReconcileStep =>
          /\ MarkersReadBack
          /\ \A n \in NoteIds : Len(notes'[n].highlights) = Len(notes[n].highlights)
          /\ \A i \in DOMAIN activeHighlightMarkers :
               LET m == activeHighlightMarkers[i]
               IN ~HasRange(m) =>
                    notes'[m.note].highlights[m.h] = notes[m.note].highlights[m.h]
      ]_vars

\* "a" of "ab" deleted and the note saved: the marker of [0,1) lost its
\* range and its span is still [0,1); the span of "b" moved from [1,2) to [0,1)
C10_Witness ==
    /\ currentNoteId = "n1"
    /\ notes["n1"].content = <<"b">>
    /\ Len(activeHighlightMarkers) = 2
    /\ ~HasRange(activeHighlightMarkers[1])
    /\ notes["n1"].highlights[1].from = 0 /\ notes["n1"].highlights[1].to = 1
    /\ notes["n1"].highlights[1].text = <<"a">>
    /\ notes["n1"].highlights[2].from = 0 /\ notes["n1"].highlights[2].to = 1
    /\ notes["n1"].highlights[2].text = <<"b">>

\* ---------------------------------------------------------------- C11
\* C11: whenever the open note changes from a note A to another note B (tab
\* click, file-explorer click, closing the tab of A), the spans of A have,
\* after the step, the offsets A's markers had when A was left.
C11_ReconcileBeforeLeaving ==
    [][ (currentNoteId # NULL /\ currentNoteId' # NULL /\ currentNoteId' # currentNoteId)
          => MarkersReadBack
      ]_vars

\* ---------------------------------------------------------------- C12
\* the record of the open note is written by this step
WritesOpenNote ==
    \/ SaveCurrentNote
    \/ hasUnsavedChanges /\ currentNoteId # NULL /\ AutoSaveFire
    \/ \E c \in Colors : \E f \in Offsets : \E t \in Offsets :
         f < t /\ ApplyHighlight(c, f, t)
    \/ \E f \in Offsets : \E t \in Offsets : RemoveHighlight(f, t)

\* C12: every write of the open note to the record store is preceded by
\* reconcile: when a marker with a range has moved away from the stored
\* offsets of its span, the written record does not hold that span at the
\* stale offsets.
C12_ReconcileBeforePersist ==
    [][ WritesOpenNote =>
          \A k \in DOMAIN activeHighlightMarkers :
              LET m == activeHighlightMarkers[k]
                  old == notes[m.note].highlights[m.h]
                  written == db'[currentNoteId].highlights
              IN (HasRange(m) /\ m.note = currentNoteId
                  /\ m.range # <<old.from, old.to>>)
                   => \A j \in DOMAIN written : written[j] # old
      ]_vars

\* ---------------------------------------------------------------- C13
\* C13: closing the tab of the open note leaves the spans of that note at
\* the offsets its markers had, with auto-save on or off and with or
\* without unsaved changes.
C13_ReconcileBeforeClose ==
    [][ (currentNoteId # NULL /\ CloseTab(currentNoteId)) => MarkersReadBack ]_vars

\* ---------------------------------------------------------------- C18
\* span i of the open note as reconcile leaves it
Reconciled(i) ==
    [Cur.highlights[i] EXCEPT !.from = SpanInterval(i)[1], !.to = SpanInterval(i)[2]]

\* C18: removeHighlight judges the spans where they are now: with a cursor
\* at f it removes exactly the spans with from <= f <= to, with a selection
\* [f, t) exactly the spans that intersect it, and every other span stays,
\* in order, at its current position with its text, previewText and color.
C18_RemoveByCurrentPosition ==
    [][ \A f \in Offsets : \A t \in Offsets :
          RemoveHighlight(f, t) =>
            LET now == [i \in DOMAIN Cur.highlights |-> Reconciled(i)]
                hit(h) == IF f = t THEN h.from <= f /\ f <= h.to
                          ELSE ~(h.to <= f \/ h.from >= t)
            IN notes'[currentNoteId].highlights = SelectSeq(now, LAMBDA h : ~hit(h))
      ]_vars

\* "c" typed before "ab" and the highlight under the cursor at offset 1
\* removed: the span of "a", now at [1,2), is gone and the span of "b" is
\* kept at [2,3)
C18_Witness ==
    /\ currentNoteId = "n1"
    /\ editorValue = <<"c", "a", "b">>
    /\ toast = ToastRemoved
    /\ notes["n1"].highlights = <<Span(2, 3, <<"b">>, "green")>>

\* ---------------------------------------------------------------- C19
\* C19: a removeHighlight whose cursor or selection meets no span changes
\* neither the spans, nor the markers, nor the stored record, nor
\* hasUnsavedChanges.
C19_RemoveNothingIsNoOp ==
    [][ \A f \in Offsets : \A t \in Offsets :
          ( /\ RemoveHighlight(f, t)
            /\ \A i \in DOMAIN Cur.highlights :
                 LET h == Reconciled(i)
                 IN IF f = t THEN ~(h.from <= f /\ f <= h.to)
                    ELSE h.to <= f \/ h.from >= t )
          => /\ notes' = notes
             /\ activeHighlightMarkers' = activeHighlightMarkers
             /\ db' = db
             /\ hasUnsavedChanges' = hasUnsavedChanges
      ]_vars

\* ---------------------------------------------------------------- C14
PreviewSyncPending == pendingFn(timeouts, "previewSync") # {}

\* C14: when the user has typed in the preview and switches to edit mode
\* before the preview-sync timeout has run, the switch cancels the timeout
\* and runs the sync itself: right after it the editor holds the text of
\* the preview and no preview-sync timeout is pending.
C14_FlushOnSwitchToEdit ==
    [][ ( /\ currentEditMode = "preview" /\ previewEditing /\ PreviewSyncPending
          /\ SwitchEditorTab("edit") )
        => /\ editorValue' = previewInnerText
           /\ pendingFn(timeouts', "previewSync") = {}
           /\ currentEditMode' = "edit"
           /\ ~previewEditing'
           /\ hasUnsavedChanges'
      ]_vars

\* "c" typed before the heading text "a" in the preview, then edit mode:
\* the editor holds "ca" and the timeout of the input is gone
C14_Witness ==
    /\ currentEditMode = "edit"
    /\ steps = 3
    /\ editorValue = <<"c", "a">>
    /\ timerHandle.previewSync = 1
    /\ ~PreviewSyncPending
    /\ ~previewEditing
    /\ db["n1"].content = <<"#", " ", "a">>

\* ---------------------------------------------------------------- C15
\* C15: every step that leaves preview mode, to edit or to split, while the
\* user's preview input awaits its sync cancels the timeout and runs the
\* sync: after it no preview-sync timeout is pending and the editor holds
\* the text of the preview.
C15_FlushOnEveryExit ==
    [][ ( /\ currentEditMode = "preview" /\ previewEditing /\ PreviewSyncPending
          /\ currentEditMode' # "preview" )
        => /\ pendingFn(timeouts', "previewSync") = {}
           /\ editorValue' = previewInnerText
      ]_vars

\* ---------------------------------------------------------------- C16
\* C16: at any time at most one autosave timeout and at most one
\* preview-sync timeout is pending, and a pending timeout is the one set
\* by the last event of its kind (the one its handle names), so that only
\* that one can run.
C16_OnePendingPerTimer ==
    /\ Cardinality(pendingFn(timeouts, "autoSave")) <= 1
    /\ Cardinality(pendingFn(timeouts, "previewSync")) <= 1
    /\ \A t \in timeouts : t.id = timerHandle[t.fn]

\* two characters typed in a row with auto-save on: only the timeout set by
\* the second is pending
C16_Witness ==
    /\ autoSave
    /\ steps = 2
    /\ Len(editorValue) = 5
    /\ timerHandle.autoSave = 2
    /\ timeouts = {[id |-> 2, fn |-> "autoSave"]}

\* ---------------------------------------------------------------- C17
\* C17: with auto-save on, whenever the editor text differs from the stored
\* content of the open note, the note is eventually stored with the editor
\* text, whatever saves are still in flight.
C17_LastEditPersisted ==
    (autoSave /\ currentNoteId # NULL /\ editorValue # db[currentNoteId].content)
      ~> (currentNoteId # NULL /\ editorValue = db[currentNoteId].content)

\* ---------------------------------------------------------------- C20
RECURSIVE textOf(_)
textOf(nodes) == IF nodes = <<>> THEN <<>> ELSE nodes[1].text \o textOf(Tail(nodes))

\* the text t is one text node whose innermost mark has the color
OneMarkedUnit(nodes, t, color) ==
    \E k \in DOMAIN nodes :
        /\ nodes[k].text = t
        /\ nodes[k].marks # <<>>
        /\ nodes[k].marks[Len(nodes[k].marks)] = color

CatText == <<"a", " ", "c", "a", "t", "e", "g", "o", "r", "y", " ", "o", "f", " ",
             "c", "a", "t", "s">>
Cat == <<"c", "a", "t">>
Category == <<"c", "a", "t", "e", "g", "o", "r", "y">>

\* C20: when the matchText of one span is a proper part of the matchText
\* of another and the longer one occurs in the rendered text, the
\* projection leaves the longer text as one marked unit of its own color,
\* not broken up by the mark of the shorter span. Instance: "cat" and
\* "category" in "a category of cats".
C20_LongestFirstKeepsUnit ==
    projected =>
      /\ \A i \in DOMAIN previewSpans : \A j \in DOMAIN previewSpans :
            LET long == matchText(previewSpans[i])
                short == matchText(previewSpans[j])
            IN ( /\ short # <<>> /\ Len(short) < Len(long)
                 /\ indexOf(long, short) # -1
                 /\ indexOf(textOf(previewNodes), long) # -1 )
               => OneMarkedUnit(previewNodes, long, previewSpans[i].color)
      /\ OneMarkedUnit(applyHighlightsToPreview(<<textNode(CatText, <<>>)>>,
                                                <<Span(11, 14, Cat, "green"),
                                                  Span(2, 10, Category, "yellow")>>),
                       Category, "yellow")

\* ---------------------------------------------------------------- C21
\* the text nodes that hold exactly the matchText of h inside a mark of its color
MarksOf(nodes, h) ==
    {k \in DOMAIN nodes :
        /\ nodes[k].text = matchText(h)
        /\ nodes[k].marks # <<>>
        /\ nodes[k].marks[Len(nodes[k].marks)] = h.color}

\* C21: after a preview render every span has at most one mark in the
\* preview: its matchText is wrapped in the first text node that holds it
\* and in no later one.
C21_AtMostOneMarkPerSpan ==
    projected =>
      \A i \in DOMAIN previewSpans : Cardinality(MarksOf(previewNodes, previewSpans[i])) <= 1

\* ---------------------------------------------------------------- C22
Occurs(text, t) ==
    \E k \in 0..(Len(text) - Len(t)) : Slice(text, k, k + Len(t)) = t

\* the span has no matchText, or its matchText is nowhere in the rendered text
Misses(nodes, h) == matchText(h) = <<>> \/ ~Occurs(textOf(nodes), matchText(h))

Marked(nodes, color) ==
    \E k \in DOMAIN nodes : \E m \in DOMAIN nodes[k].marks : nodes[k].marks[m] = color

\* C22: a span whose matchText is empty or does not occur in the rendered
\* text gets no mark; the other span is still projected when its text
\* occurs; the rendered text, note.highlights, the live markers and the
\* editor text are as before the projection.
C22_MissLeavesNoMark ==
    [][ApplyHighlightsToPreview =>
         /\ \A i \in DOMAIN previewSpans :
               Misses(previewNodes, previewSpans[i]) =>
                 /\ ~Marked(previewNodes', previewSpans[i].color)
                 /\ \A j \in DOMAIN previewSpans \ {i} :
                       ~Misses(previewNodes, previewSpans[j]) =>
                          MarksOf(previewNodes', previewSpans[j]) # {}
         /\ textOf(previewNodes') = textOf(previewNodes)
         /\ UNCHANGED <<notes, activeHighlightMarkers, editorValue>>]_vars

\* a span whose text is not in the preview was skipped and the other one marked
C22_Witness ==
    /\ projected
    /\ \E i \in DOMAIN previewSpans : \E j \in DOMAIN previewSpans :
          /\ matchText(previewSpans[i]) # <<>>
          /\ ~Occurs(textOf(previewNodes), matchText(previewSpans[i]))
          /\ ~Marked(previewNodes, previewSpans[i].color)
          /\ MarksOf(previewNodes, previewSpans[j]) # {}

\* ---------------------------------------------------------------- C25
\* the fields of a span that are set when it is created
Captured(h) == <<h.text, h.previewText, h.color>>

\* C25: text, previewText and color of a span are fixed at creation. A
\* reconcile leaves them as they are at every index of every note, and
\* after any step every span, in memory or stored, has the captured fields
\* of a span that existed before the step or is the span applyHighlight
\* has just created from the selection.
C25_CapturedFieldsFixed ==
    [][ /\ ReconcileStep =>
             \A n \in NoteIds :
                /\ Len(notes'[n].highlights) = Len(notes[n].highlights)
                /\ \A i \in DOMAIN notes[n].highlights :
                      Captured(notes'[n].highlights[i]) = Captured(notes[n].highlights[i])
        /\ \A n \in NoteIds : \A store \in {notes', db'} :
              \A i \in DOMAIN store[n].highlights :
                 \/ \E j \in DOMAIN notes[n].highlights :
                       Captured(store[n].highlights[i]) = Captured(notes[n].highlights[j])
                 \/ \E j \in DOMAIN db[n].highlights :
                       Captured(store[n].highlights[i]) = Captured(db[n].highlights[j])
                 \/ /\ n = currentNoteId
                    /\ i = Len(store[n].highlights)
                    /\ \E c \in Colors : \E f \in Offsets : \E t \in Offsets :
                          /\ f < t /\ ApplyHighlight(c, f, t)
                          /\ Captured(store[n].highlights[i])
                               = <<Slice(editorValue, f, t),
                                   markdownToPlainText(Slice(editorValue, f, t)), c>>
      ]_vars

\* the open note is stored with a span that has grown over text typed into
\* it and still has the text and previewText of its creation
C25_Witness ==
    /\ currentNoteId # NULL
    /\ db[currentNoteId].content = editorValue
    /\ \E i \in DOMAIN db[currentNoteId].highlights :
          LET h == db[currentNoteId].highlights[i]
          IN /\ InBounds(h, Len(editorValue))
             /\ h.to - h.from > Len(h.text)
             /\ Slice(editorValue, h.from, h.to) # h.text
             /\ h.previewText = markdownToPlainText(h.text)

\* ---------------------------------------------------------------- C28
\* C28: applyHighlight on a non-empty selection does not move the
\* highlights it keeps: a live marker whose span is kept is, after the
\* rebuild, a live marker of the same color at the same offsets.
C28_SurvivorsKeepPlace ==
    [][\A c \in Colors : \A f \in Offsets : \A t \in Offsets :
         (f < t /\ ApplyHighlight(c, f, t)) =>
           \A i \in DOMAIN activeHighlightMarkers :
              LET m == activeHighlightMarkers[i]
                  h == notes[m.note].highlights[m.h]
              IN (HasRange(m) /\ (h.to <= f \/ h.from >= t)) =>
                   \E k \in DOMAIN activeHighlightMarkers' :
                      /\ activeHighlightMarkers'[k].range = m.range
                      /\ activeHighlightMarkers'[k].color = m.color
      ]_vars

\* ---------------------------------------------------------------- C30
\* C30: whenever hasUnsavedChanges is false while a note is open and no
\* save is awaiting the record store, the editor text is the content last
\* written to the store for that note.
C30_SavedFlagAccurate ==
    (~hasUnsavedChanges /\ currentNoteId # NULL /\ savesInFlight = 0)
      => editorValue = db[currentNoteId].content

\* ---------------------------------------------------------------- C26
\* C26: the mode is always edit, preview or split and changes only in a
\* switchEditorTab or toggleEditMode step; the preview is editable exactly
\* in preview mode; _previewEditing is set only in preview mode.
C26_ModeController ==
    /\ [](/\ currentEditMode \in {"edit", "preview", "split"}
          /\ previewEditable <=> currentEditMode = "preview"
          /\ previewEditing => currentEditMode = "preview")
    /\ [][currentEditMode' # currentEditMode =>
            \/ \E mode \in {"edit", "preview", "split"} : SwitchEditorTab(mode)
            \/ ToggleEditMode]_vars

\* split mode entered from a preview the user was typing in
C26_Witness ==
    /\ currentEditMode = "split"
    /\ ~previewEditable
    /\ ~previewEditing
    /\ PreviewSyncPending

\* ---------------------------------------------------------------- C23
\* the steps that replace the editor text of the open note as a whole
BulkReplace ==
    \/ \E t \in timeouts : PreviewSyncTimeout(t)
    \/ SwitchEditorTab("edit") /\ flushPending(previewEditing, timerHandle.previewSync)
    \/ \E n \in NoteIds : OpenNoteInMode(n)

\* C23: after every step that replaces the editor text as a whole the
\* markers have been rebuilt: every span of the open note that is in
\* bounds of the new text has a live marker at its offsets.
C23_RebuildAfterBulkReplace ==
    [][(BulkReplace /\ currentNoteId' # NULL) =>
         \A i \in DOMAIN notes'[currentNoteId'].highlights :
            LET h == notes'[currentNoteId'].highlights[i]
            IN InBounds(h, Len(editorValue')) =>
                 \E k \in DOMAIN activeHighlightMarkers' :
                    /\ activeHighlightMarkers'[k].note = currentNoteId'
                    /\ activeHighlightMarkers'[k].h = i
                    /\ activeHighlightMarkers'[k].range = <<h.from, h.to>>
      ]_vars

\* ---------------------------------------------------------------- C29
\* C29: when the open note changes while the user's preview input awaits
\* its sync, the preview text is written to the content of the note that
\* is left and no preview-sync timeout stays pending, so that none can run
\* on the note that is opened.
C29_PreviewSyncStaysWithNote ==
    [][(currentNoteId' # currentNoteId /\ previewEditing /\ PreviewSyncPending) =>
         /\ notes'[currentNoteId].content = previewInnerText
         /\ pendingFn(timeouts', "previewSync") = {}
      ]_vars

\* ---------------------------------------------------------------- C24
\* C24: only the markers of one note exist at a time. In every state each
\* marker that has a range is bound to a span of the open note, and a
\* reconcile changes from and to of no span of any other note.
C24_MarkersOfOpenNoteOnly ==
    /\ [](\A k \in DOMAIN activeHighlightMarkers :
            LET m == activeHighlightMarkers[k]
            IN HasRange(m) =>
                 /\ currentNoteId # NULL
                 /\ m.note = currentNoteId
                 /\ m.h \in DOMAIN notes[currentNoteId].highlights)
    /\ [][ReconcileStep =>
            \A n \in NoteIds \ {currentNoteId} :
               \A i \in DOMAIN notes[n].highlights :
                  /\ i \in DOMAIN notes'[n].highlights
                  /\ notes'[n].highlights[i].from = notes[n].highlights[i].from
                  /\ notes'[n].highlights[i].to = notes[n].highlights[i].to]_vars

\* ---------------------------------------------------------------- C27
\* C27: a search whose pattern is a malformed regular expression ends with
\* no matches, currentMatchIndex = -1 and no search markers; no toast is
\* shown and the editor text, the notes and the highlight markers are as
\* before.
C27_InvalidPatternNoMatches ==
    [][(searchState'.useRegex /\ throwsSyntaxError(searchState'.query)) =>
         /\ searchState'.matches = <<>>
         /\ searchState'.currentMatchIndex = -1
         /\ searchState'.markers = <<>>
         /\ UNCHANGED <<editorValue, notes, activeHighlightMarkers, toast>>
      ]_vars

\* the query "(" found the parenthesis as plain text; with the regex
\* option switched on it is malformed and nothing is left of the search
C27_Witness ==
    /\ searchState.useRegex
    /\ searchState.query = <<"(">>
    /\ searchInput = <<"(">>
    /\ searchState.matches = <<>>
    /\ searchState.markers = <<>>
    /\ searchState.currentMatchIndex = -1

\* ---------------------------------------------------------------- C35
\* C35: the projection keeps the rendered text: the text nodes of the
\* preview, read in document order, spell the same text after
\* applyHighlightsToPreview as before, whatever the spans.
C35_ProjectionKeepsText ==
    [][ApplyHighlightsToPreview => textOf(previewNodes') = textOf(previewNodes)]_vars

\* the projection has split the rendered text into several text nodes
C35_Witness ==
    /\ projected
    /\ Len(previewNodes) >= 3
    /\ \E k \in DOMAIN previewNodes : Len(previewNodes[k].marks) = 2

\* ---------------------------------------------------------------- C32
\* C32: every record written to the store is consistent with itself: each
\* of its spans satisfies 0 <= from < to <= length of the content of that
\* record.
C32_WrittenRecordConsistent ==
    [][\A n \in NoteIds :
         db'[n] # db[n] =>
           \A i \in DOMAIN db'[n].highlights :
              InBounds(db'[n].highlights[i], Len(db'[n].content))]_vars

\* ---------------------------------------------------------------- C34
\* C34: opening a note does not make it dirty. A step that opens a note
\* ends with hasUnsavedChanges false and starts no autosave timer; the
\* flag is raised for an open note only by an edit or a highlight command
\* of the user; and the callback of an autosave timer that finds the flag
\* down writes nothing.
C34_OpenNoteNotDirty ==
    [][ /\ (\/ \E n \in NoteIds : OpenNote(n)
            \/ currentNoteId' # NULL /\ currentNoteId' # currentNoteId)
           => ~hasUnsavedChanges' /\ (autoSaveTimer' => autoSaveTimer)
        /\ (~hasUnsavedChanges /\ hasUnsavedChanges' /\ currentNoteId' # NULL)
           => \/ \E p \in Offsets : \E c \in Keys : EditInsert(p, c)
              \/ \E d1 \in Offsets : \E d2 \in Offsets : EditDelete(d1, d2)
              \/ \E c \in Colors : \E f \in Offsets : \E t \in Offsets :
                    ApplyHighlight(c, f, t)
              \/ \E f \in Offsets : \E t \in Offsets : RemoveHighlight(f, t)
        /\ (AutoSaveFire /\ ~hasUnsavedChanges) => UNCHANGED <<db, notes>>
      ]_vars

\* n2 was opened while the autosave timer of an edit of n1 was pending;
\* the callback has run and n2 is stored as it was
C34_Witness ==
    /\ steps = 3
    /\ openTabs = <<"n1", "n2">>
    /\ currentNoteId = "n2"
    /\ autoSave /\ ~autoSaveTimer
    /\ ~hasUnsavedChanges
    /\ savesInFlight = 0
    /\ db["n2"] = StaleRecord
    /\ notes["n1"].content = db["n1"].content

\* ---------------------------------------------------------------- C37
\* C37: after replaceOne the matches and their markers are those of a
\* search of the new text; after replaceAll there is no match and no
\* marker and currentMatchIndex is -1.
C37_ReplaceKeepsSearchInStep ==
    [][\A text \in ReplaceTexts : \A defined \in BOOLEAN :
         /\ ReplaceOne(text, defined) =>
               /\ searchState'.matches = execAll(editorValue', searchState', 0)
               /\ searchState'.markers
                    = searchMarkers(searchState'.matches, searchState'.currentMatchIndex)
         /\ ReplaceAll(text, defined) =>
               /\ searchState'.matches = <<>>
               /\ searchState'.markers = <<>>
               /\ searchState'.currentMatchIndex = -1
      ]_vars

\* ---------------------------------------------------------------- C36
\* C36: the folder tree stays acyclic under folder drops (nest, reorder,
\* move to root): from every folder the chain of parents reaches the
\* root, so the loops of isChildFolder and getFolderDepth end; and a drop
\* of a folder onto itself or onto one of its descendants changes no
\* parentFolderId.
RECURSIVE ReachesRoot(_, _, _)
ReachesRoot(fs, f, fuel) ==
    IF f \notin DOMAIN fs \/ fs[f] = NULL THEN TRUE
    ELSE IF fuel = 0 THEN FALSE
    ELSE ReachesRoot(fs, fs[f], fuel - 1)

Acyclic(fs) == \A f \in DOMAIN fs : ReachesRoot(fs, f, Cardinality(DOMAIN fs))

\* the folders below d: the least set closed under "child of"
RECURSIVE Below(_, _, _)
Below(fs, set, fuel) ==
    IF fuel = 0 THEN set
    ELSE Below(fs, set \cup {f \in DOMAIN fs : fs[f] \in set}, fuel - 1)

Descendants(fs, d) ==
    Below(fs, {f \in DOMAIN fs : fs[f] = d}, Cardinality(DOMAIN fs))

C36_FolderTreeAcyclic ==
    /\ [](Acyclic(folders))
    /\ [][\A d \in FolderIds : \A t \in FolderIds :
            (/\ t = d \/ t \in Descendants(folders, d)
             /\ DropReorder(d, t) \/ DropNest(d, t))
            => folders' = folders]_vars

\* a chain of four nested folders after a refused drop of its top folder
\* onto its deepest one
C36_Witness ==
    /\ folders["f4"] = "f3" /\ folders["f3"] = "f2"
    /\ folders["f2"] = "f1" /\ folders["f1"] = NULL
    /\ getFolderDepth(folders, "f4") = 3
    /\ toast = ToastCannotMove

\* ---------------------------------------------------------------- C31
\* C31: a deleted note stays deleted. Once confirmDelete or clearAllData
\* has run to its end, the record store holds no record of a note that
\* was deleted, however the callback of the autosave timer and the saves
\* in flight fall between the awaits of the delete.
C31_DeletedStaysDeleted ==
    pendingDelete = NoDelete => DOMAIN db \subseteq DOMAIN notes

\* ---------------------------------------------------------------- C33
\* C33: the tabs are consistent when no delete is under way: every id in
\* openTabs is the id of a note, no id is there twice, and currentNoteId
\* is null or one of the ids in openTabs.
C33_TabsConsistent ==
    pendingDelete = NoDelete =>
       /\ \A i \in DOMAIN openTabs : openTabs[i] \in DOMAIN notes
       /\ \A i \in DOMAIN openTabs : \A j \in DOMAIN openTabs :
             openTabs[i] = openTabs[j] => i = j
       /\ currentNoteId = NULL \/ Contains(openTabs, currentNoteId)
====
